---------------------------- MODULE Spec2Model ----------------------------
(***************************************************************************)
(* A model of khanghh/ethcore: the RPC connection pool (RpcConnectionPool: *)
(* Call, BatchCall, cooldown, Close), the block assembler (getBlock,       *)
(* getBlockUncles, Block.WithBody, Block.WithWithdrawals), the receipt     *)
(* batcher (getBlockReceiptsByHashes), the block-number parameters         *)
(* (toBlockNumArg), the chain queries of RemoteChainReader and the         *)
(* construction of the pool (SetupConnectionPool).                         *)
(*                                                                         *)
(* Spec          the pool in service: concurrent callers of Call and       *)
(*               BatchCall, and the cooldown goroutines.                   *)
(* ShutdownSpec  Spec with Close running concurrently.                     *)
(* FairSpec      one caller and the cooldown goroutines under the          *)
(*               scheduling of the Go runtime (timers fire) and            *)
(*               reconnections that eventually succeed.                    *)
(* BlockSpec     getBlock against an rpcCaller that may answer anything.   *)
(* ReceiptSpec   getBlockReceiptsByHashes against such an rpcCaller.       *)
(* RequestSpec   the requests that carry a block number, of ETHClient and  *)
(*               of RpcConnectionPool.                                     *)
(* SetupSpec     SetupConnectionPool dialling its addresses concurrently.  *)
(* ReaderSpec    getBlock and getBlockReceiptsByHashes with the pool as    *)
(*               their rpcCaller: one goroutine that runs an operation     *)
(*               and, after a getBlock, the same getBlock again.           *)
(* DisciplineSpec the loop of Call and of BatchCall run side by side from   *)
(*               the same flags and the same answers of the endpoints.     *)
(* DialSpec      SetupConnectionPool with more addresses than its          *)
(*               semaphore has slots.                                      *)
(* EndpointSpec  the pool in service with the fields of its endpoints      *)
(*               (address, latency) and Size.                              *)
(* EquivSpec     one chain query of RemoteChainReader on an ETHClient and  *)
(*               on a pool of that one endpoint.                           *)
(***************************************************************************)
EXTENDS Integers, Sequences, FiniteSets, TLC

\* ------------------------------------------------------------------ bounds

\* number of endpoints of the pool (len(p.clients))
NumClients == 2

\* number of calls started in one behaviour
MaxCalls == 2

\* number of distinct hashes on the simulated chain
NumHashes == 2

\* longest transaction list of a block
MaxTxs == 1

\* longest uncle list of a block
MaxUncles == 2

\* longest withdrawal list of a block
MaxWithdrawals == 1

\* longest list of transaction hashes receipts are asked for
MaxTxHashes == 250

\* number of candidate addresses where the semaphore of SetupConnectionPool is
\* looked at: more than it has slots
NumDialUrls == 6

\* const rpcRequestBatchSize
rpcRequestBatchSize == 100

\* largest block number asked for
MaxNumber == 300

\* number of candidate addresses pool construction is given
NumUrls == 3

\* largest latency a dial measures
MaxLatency == 3

\* the capacity of sem in SetupConnectionPool
SemCapacity == 5

Clients == 1..NumClients

\* the goroutines that call Call / BatchCall concurrently: two, which is what
\* contention for an endpoint takes
Callers == {1, 2}

\* ------------------------------------------------------------ pool state

VARIABLES
    status,     \* p.status: status[i] = 0 free, 1 busy
    quit,       \* p.quitCh is closed
    transport,  \* state of the transport currently held in clients[i].client
    cdWait,     \* cooldown goroutines of endpoint i blocked in select
    cdConn,     \* cooldown goroutines of endpoint i inside client.connect
    closePc,    \* position of the goroutine running Close
    pc,         \* position of each caller in Call / BatchCall
    kind,       \* "Call" or "BatchCall"
    idx,        \* loop index of the range over p.clients
    err,        \* the local variable err
    allBusy,    \* the local variable allBusy of BatchCall
    ret,        \* the error returned to the caller
    vis,        \* log of the call: the endpoints visited and what happened
    calls       \* number of calls started so far

\* ------------------------------------------------- block assembler state

VARIABLES
    gbPc,       \* position in getBlock: "idle", "call", "batch", "done", "panic"
    gbFull,     \* the argument fullBlock
    gbRaw,      \* the envelope returned by the first call
    gbLog,      \* the requests getBlock has issued through its rpcCaller
    gbReply,    \* the elements the batched call came back with
    gbBlock,    \* the *types.Block returned
    gbErr       \* the error returned

blockVars == <<gbPc, gbFull, gbRaw, gbLog, gbReply, gbBlock, gbErr>>

\* ------------------------------------------------- receipt batcher state

VARIABLES
    rcPc,        \* position in getBlockReceiptsByHashes: "idle", "batch", "done"
    rcBlockHash, \* the argument blockHash
    rcTxHashes,  \* the argument txHashes
    rcI,         \* the loop variable i: the chunk being fetched
    rcRet,       \* the local slice ret
    rcLog,       \* the batches issued through the rpcCaller
    rcBad,       \* the faulty element the server has answered with, if any
    rcOut,       \* the receipts returned
    rcErr        \* the error returned

receiptVars == <<rcPc, rcBlockHash, rcTxHashes, rcI, rcRet, rcLog, rcBad, rcOut, rcErr>>

\* ------------------------------------------------ chain queries' state

VARIABLES
    rqPc,        \* "idle", or "sent" once a chain query has built its request
    rqReq        \* the request: receiver, operation, number, method, params

requestVars == <<rqPc, rqReq>>

\* ---------------------------------------------- pool construction state

VARIABLES
    suPc,        \* SetupConnectionPool: "loop", "wait" (wg.Wait), "done"
    suNext,      \* the position in urls of the next address to dial
    suG,         \* the goroutine of each address: "idle", "dialing", "exiting", "gone"
    suResult,    \* what each dial ended with: "none" yet, "failed", or "ok" and a latency
    suSem,       \* the number of tokens in sem
    suWg,        \* the counter of wg
    suClients,   \* the slice clients
    suPool,      \* the *RpcConnectionPool returned
    suErr        \* the error returned

setupVars == <<suPc, suNext, suG, suResult, suSem, suWg, suClients, suPool, suErr>>

\* ------------------------------------- state of a reader using the pool

VARIABLES
    rdServed,    \* the endpoint that answered the pool call that returned last
    rdServedFree, \* that call left the endpoint that answered it free
    rdAsFound,   \* that call left every endpoint it had claimed free
    rdFirst      \* the first getBlock that has returned, with its result

readerVars == <<rdServed, rdServedFree, rdAsFound, rdFirst>>

\* ------------------------ one scan run as Call and as BatchCall, side by side

VARIABLES
    dsPc,        \* "idle", or "chosen" once the pool state and the answers are fixed
    dsStatus,    \* p.status when the call is entered
    dsOuts,      \* what each endpoint answers if the call gets to use it
    dsCall,      \* what Call does from there
    dsBatch      \* what BatchCall does from there

disciplineVars == <<dsPc, dsStatus, dsOuts, dsCall, dsBatch>>

\* ------------------------------- the semaphore of pool construction

VARIABLES
    dlPc,        \* SetupConnectionPool: "loop", "wait" (wg.Wait), "done"
    dlNext,      \* the position in urls of the next address to dial
    dlG,         \* the goroutine of each address: "idle", "dialing", "ok" or
                 \* "failed" (DialContext returned), "release" (wg.Done done), "gone"
    dlSem,       \* the number of tokens in sem
    dlWg         \* the counter of wg

dialVars == <<dlPc, dlNext, dlG, dlSem, dlWg>>

\* ------------------------------------------ the endpoints of the pool

VARIABLES
    epClients,   \* p.clients: the *ETHClient sequence, each with its url and latency
    epSize       \* what Size() returned last, 0 before its first call

endpointVars == <<epClients, epSize>>

\* ----------------- one chain query on an endpoint and on a pool of it

VARIABLES
    eqPc,        \* "idle", "sent" (both requests built), "done" (both returned)
    eqOp,        \* the operation of RemoteChainReader and its arguments
    eqDirect,    \* the request and the result on the *ETHClient
    eqPooled     \* the request and the result on the pool of that one endpoint

equivVars == <<eqPc, eqOp, eqDirect, eqPooled>>

poolVars == <<status, quit, transport, cdWait, cdConn, closePc>>

callVars == <<pc, kind, idx, err, allBusy, ret, vis, calls>>

\* what the pool's operations leave alone
nonPoolVars == <<blockVars, receiptVars, requestVars, setupVars, readerVars,
    disciplineVars,
    dialVars,
    endpointVars,
    equivVars>>

\* what the side-by-side scan leaves alone
nonDisciplineVars == <<poolVars, callVars, blockVars, receiptVars, requestVars, setupVars,
    readerVars,
    dialVars,
    endpointVars,
    equivVars>>

\* what the goroutines of pool construction leave alone
nonDialVars == <<poolVars, callVars, blockVars, receiptVars, requestVars, setupVars,
    readerVars, disciplineVars,
    endpointVars,
    equivVars>>

\* what the endpoints' fields are left alone with
nonEndpointVars == <<blockVars, receiptVars, requestVars, setupVars, readerVars,
    disciplineVars, dialVars,
    equivVars>>

\* what the side-by-side chain query leaves alone
nonEquivVars == <<poolVars, callVars, blockVars, receiptVars, requestVars, setupVars,
    readerVars, disciplineVars, dialVars, endpointVars>>

\* what the block assembler leaves alone
nonBlockVars == <<poolVars, callVars, receiptVars, requestVars, setupVars, readerVars,
    disciplineVars,
    dialVars,
    endpointVars,
    equivVars>>

\* what the receipt batcher leaves alone
nonReceiptVars == <<poolVars, callVars, blockVars, requestVars, setupVars, readerVars,
    disciplineVars,
    dialVars,
    endpointVars,
    equivVars>>

\* what building a chain query's request leaves alone
nonRequestVars == <<poolVars, callVars, blockVars, receiptVars, setupVars, readerVars,
    disciplineVars,
    dialVars,
    endpointVars,
    equivVars>>

\* what pool construction leaves alone
nonSetupVars == <<poolVars, callVars, blockVars, receiptVars, requestVars, readerVars,
    disciplineVars,
    dialVars,
    endpointVars,
    equivVars>>

\* -------------------------------------------------------------- errors

\* error values: a class and the endpoint that produced it (0: none)
Nil == [class |-> "nil", from |-> 0]

\* fmt.Errorf("all clients are busy")
ErrAllBusy == [class |-> "allbusy", from |-> 0]

\* ethereum.NotFound / rpc.ErrNoResult returned by endpoint i
ErrNoResult(i) == [class |-> "noresult", from |-> i]

\* any other error of client.Call / client.BatchCall on endpoint i
ErrFault(i) == [class |-> "fault", from |-> i]

\* the first element error of a batch answered by endpoint i (getBatchErr)
ErrElem(i) == [class |-> "elem", from |-> i]

\* the error of a request whose context was cancelled or timed out, on endpoint i
ErrCtx(i) == [class |-> "ctx", from |-> i]

\* what a request on endpoint i can come back with
Outcomes == {"ok", "noresult", "fault", "elem", "ctx"}

ErrorOf(out, i) ==
    CASE out = "ok" -> Nil
      [] out = "noresult" -> ErrNoResult(i)
      [] out = "fault" -> ErrFault(i)
      [] out = "elem" -> ErrElem(i)
      [] out = "ctx" -> ErrCtx(i)

\* --------------------------------------------------- Call and BatchCall

\* a variant that claims the endpoint whatever its flag holds
CasAlways(i, old) == TRUE

\* atomic.CompareAndSwapInt64(&p.status[i], old, new) succeeds
CompareAndSwapInt64(i, old) == status[i] = old

\* a variant that does not cool an endpoint down when the context ended
ShouldCooldownSparesCtx(k, e) == e.class \notin {"noresult", "ctx"}

\* the error of a failed attempt puts the endpoint into cooldown:
\* Call spares ethereum.NotFound and rpc.ErrNoResult, BatchCall spares nothing
ShouldCooldown(k, e) == k = "BatchCall" \/ e.class # "noresult"

\* the caller's context ended during an earlier attempt of this call
CtxDone(log) == \E n \in 1..Len(log) : log[n].out = "ctx"

\* what client.Call / client.BatchCall (followed by getBatchErr) can answer on
\* endpoint i: a finished context and a closed transport only give errors, and
\* the context can end during any attempt
OutcomesOf(k, i, log) ==
    IF CtxDone(log) THEN {"ctx"}
    ELSE IF transport[i] = "closed" THEN {"fault", "ctx"}
    ELSE IF k = "Call" THEN {"ok", "noresult", "fault", "ctx"}
    ELSE {"ok", "fault", "elem", "ctx"}

\* a variant of BatchCall without the allBusy check
ReturnLastError(k, busy, e) == e

\* the value returned after the loop over p.clients
ReturnAfterLoop(k, busy, e) == IF k = "BatchCall" /\ busy THEN ErrAllBusy ELSE e

\* a caller enters Call or BatchCall; callers are numbered in the order in
\* which they become active (idle callers are interchangeable)
Start(p) ==
    /\ pc[p] = "idle"
    /\ \A q \in Callers : q < p => pc[q] # "idle"
    /\ calls < MaxCalls
    /\ calls' = calls + 1
    /\ \E k \in {"Call", "BatchCall"} : kind' = [kind EXCEPT ![p] = k]
    /\ pc' = [pc EXCEPT ![p] = "scan"]
    /\ idx' = [idx EXCEPT ![p] = 1]
    /\ err' = [err EXCEPT ![p] = Nil]
    /\ allBusy' = [allBusy EXCEPT ![p] = TRUE]
    /\ UNCHANGED <<ret, vis, poolVars>>
    /\ UNCHANGED nonPoolVars

\* a variant of the loop that stays at the endpoint it has just visited
ContinueSameEndpoint(p, i, e, busy) ==
    /\ idx' = idx
    /\ pc' = [pc EXCEPT ![p] = "scan"]
    /\ UNCHANGED ret

\* the loop goes on to endpoint i + 1, or ends and the function returns
Continue(p, i, e, busy) ==
    /\ idx' = [idx EXCEPT ![p] = i + 1]
    /\ IF i + 1 <= NumClients
       THEN /\ pc' = [pc EXCEPT ![p] = "scan"]
            /\ UNCHANGED ret
       ELSE /\ pc' = [pc EXCEPT ![p] = "done"]
            /\ ret' = [ret EXCEPT ![p] = ReturnAfterLoop(kind[p], busy, e)]

\* one iteration head: the compare-and-swap on p.status[idx]
TryClaim(p) ==
    /\ pc[p] = "scan"
    /\ LET i == idx[p] IN
       IF CompareAndSwapInt64(i, 0)
       THEN /\ status' = [status EXCEPT ![i] = 1]
            /\ pc' = [pc EXCEPT ![p] = "exec"]
            /\ allBusy' = [allBusy EXCEPT ![p] = IF kind[p] = "BatchCall" THEN FALSE ELSE @]
            /\ UNCHANGED <<idx, vis, ret>>
       ELSE /\ Continue(p, i, err[p], allBusy[p])
            /\ vis' = [vis EXCEPT ![p] = Append(@, [i |-> i, out |-> "busy", cool |-> FALSE])]
            /\ UNCHANGED <<status, allBusy>>
    /\ UNCHANGED <<quit, transport, cdWait, cdConn, closePc, kind, err, calls>>
    /\ UNCHANGED nonPoolVars

\* a variant of the success path that forgets to free the endpoint
ReleaseSkipped(st, i) == st

\* atomic.StoreInt64(&p.status[idx], 0) on the success path
Release(st, i) == [st EXCEPT ![i] = 0]

\* the request on the claimed endpoint returns and the loop body handles it
Exec(p) ==
    /\ pc[p] = "exec"
    /\ LET i == idx[p] IN
       \E out \in OutcomesOf(kind[p], i, vis[p]) :
          LET e == ErrorOf(out, i) IN
          /\ err' = [err EXCEPT ![p] = e]
          /\ IF out = "ok"
             THEN /\ status' = Release(status, i)
                  /\ ret' = [ret EXCEPT ![p] = Nil]
                  /\ pc' = [pc EXCEPT ![p] = "done"]
                  /\ vis' = [vis EXCEPT ![p] = Append(@, [i |-> i, out |-> out, cool |-> FALSE])]
                  /\ UNCHANGED <<idx, cdWait>>
             ELSE /\ cdWait' = [cdWait EXCEPT ![i] = IF ShouldCooldown(kind[p], e) THEN @ + 1 ELSE @]
                  /\ Continue(p, i, e, allBusy[p])
                  /\ vis' = [vis EXCEPT ![p] = Append(@, [i |-> i, out |-> out, cool |-> ShouldCooldown(kind[p], e)])]
                  /\ UNCHANGED status
    /\ UNCHANGED <<quit, transport, cdConn, closePc, kind, allBusy, calls>>
    /\ UNCHANGED nonPoolVars

\* the caller has its answer; the goroutine is ready for another call
ReturnStep(p) ==
    /\ pc[p] = "done"
    /\ pc' = [pc EXCEPT ![p] = "idle"]
    /\ kind' = [kind EXCEPT ![p] = "Call"]
    /\ idx' = [idx EXCEPT ![p] = 0]
    /\ err' = [err EXCEPT ![p] = Nil]
    /\ allBusy' = [allBusy EXCEPT ![p] = TRUE]
    /\ ret' = [ret EXCEPT ![p] = Nil]
    /\ vis' = [vis EXCEPT ![p] = <<>>]
    /\ UNCHANGED <<calls, poolVars>>

Return(p) == ReturnStep(p) /\ UNCHANGED nonPoolVars

\* ------------------------------------------------------------- cooldown

\* select: <-p.quitCh wins, the goroutine returns
CooldownQuit(i) ==
    /\ cdWait[i] > 0
    /\ quit
    /\ cdWait' = [cdWait EXCEPT ![i] = @ - 1]
    /\ UNCHANGED <<status, quit, transport, cdConn, closePc, callVars>>
    /\ UNCHANGED nonPoolVars

\* a variant that frees the endpoint when the delay is over, without reconnecting
CooldownTimerFrees(i) ==
    /\ cdWait[i] > 0
    /\ ~quit
    /\ cdWait' = [cdWait EXCEPT ![i] = @ - 1]
    /\ status' = [status EXCEPT ![i] = 0]
    /\ UNCHANGED <<quit, transport, cdConn, closePc, callVars>>
    /\ UNCHANGED nonPoolVars

\* select: <-time.After(rpcConnectionCooldown) wins: the timer fired while
\* quitCh was still open
CooldownTimer(i) ==
    /\ cdWait[i] > 0
    /\ ~quit
    /\ cdWait' = [cdWait EXCEPT ![i] = @ - 1]
    /\ cdConn' = [cdConn EXCEPT ![i] = @ + 1]
    /\ UNCHANGED <<status, quit, transport, closePc, callVars>>
    /\ UNCHANGED nonPoolVars

\* client.connect(context.Background()) returns nil: ec.client is the new
\* transport; then atomic.StoreInt64(&p.status[idx], 0) and the goroutine returns
ReconnectOkStep(i) ==
    /\ cdConn[i] > 0
    /\ transport' = [transport EXCEPT ![i] = "open"]
    /\ status' = [status EXCEPT ![i] = 0]
    /\ cdConn' = [cdConn EXCEPT ![i] = @ - 1]
    /\ UNCHANGED <<quit, cdWait, closePc, callVars>>

\* the same, seen without the fields of the endpoint (EndpointSpec has them)
ReconnectOk(i) == ReconnectOkStep(i) /\ UNCHANGED nonPoolVars

\* client.connect returns an error: log it and wait another full delay
ReconnectFailStep(i) ==
    /\ cdConn[i] > 0
    /\ cdConn' = [cdConn EXCEPT ![i] = @ - 1]
    /\ cdWait' = [cdWait EXCEPT ![i] = @ + 1]
    /\ UNCHANGED <<status, quit, transport, closePc, callVars>>

\* a variant in which a failed reconnection ends the task without another delay
ReconnectFailGivesUp(i) ==
    /\ cdConn[i] > 0
    /\ cdConn' = [cdConn EXCEPT ![i] = @ - 1]
    /\ UNCHANGED <<status, quit, transport, cdWait, closePc, callVars>>
    /\ UNCHANGED nonPoolVars

\* the same, seen without the fields of the endpoint (EndpointSpec has them)
ReconnectFail(i) == ReconnectFailStep(i) /\ UNCHANGED nonPoolVars

\* ---------------------------------------------------------------- Close

\* close(p.quitCh)
CloseQuit ==
    /\ closePc = 0
    /\ quit' = TRUE
    /\ closePc' = 1
    /\ UNCHANGED <<status, transport, cdWait, cdConn, callVars>>
    /\ UNCHANGED nonPoolVars

\* one iteration of the loop of Close: client.Close()
CloseClient ==
    /\ closePc \in Clients
    /\ transport' = [transport EXCEPT ![closePc] = "closed"]
    /\ closePc' = closePc + 1
    /\ UNCHANGED <<status, quit, cdWait, cdConn, callVars>>
    /\ UNCHANGED nonPoolVars

\* Close has returned
CloseReturned == closePc = NumClients + 1

\* ------------------------------------------------------ block assembler

Hashes == 1..NumHashes

\* the sequences over S of length at most n
SeqsUpTo(S, n) == UNION {[1..k -> S] : k \in 0..n}

\* ethereum.NotFound returned by getBlock itself
ErrNotFound == [class |-> "notfound", from |-> 0]

\* the error of json.Unmarshal
ErrDecode == [class |-> "decode", from |-> 0]

\* fmt.Errorf("got null header for hash %s", ...)
ErrNullHeader == [class |-> "nullheader", from |-> 0]

\* fmt.Errorf("got wrong header for hash %s", ...)
ErrWrongHeader == [class |-> "wrongheader", from |-> 0]

\* a *types.Header: nil, or a header with its Hash field
NilHeader == [nil |-> TRUE, Hash |-> 0]

Header(h) == [nil |-> FALSE, Hash |-> h]

\* a *types.Transaction with its hash
Tx(h) == [hash |-> h]

\* the payloads of the envelope call: an empty payload, JSON null, a payload
\* the header does not decode from ("bad"), a payload whose body does not decode
\* ("badbody"), and a block object
NoRaw == [kind |-> "none", hash |-> 0, txs |-> <<>>, uncles |-> <<>>, wds |-> <<>>]

RawPayloads ==
    {[kind |-> k, hash |-> 0, txs |-> <<>>, uncles |-> <<>>, wds |-> <<>>] :
        k \in {"empty", "null", "bad"}}
    \cup [kind : {"obj", "badbody"}, hash : Hashes, txs : SeqsUpTo(Hashes, MaxTxs),
          uncles : SeqsUpTo(Hashes, MaxUncles), wds : SeqsUpTo({1}, MaxWithdrawals)]

\* what one element of the uncle batch can come back with: an element error, a
\* null header, or a header
ElemReplies ==
    {[kind |-> k, hash |-> 0] : k \in {"err", "null"}}
    \cup [kind : {"hdr"}, hash : Hashes]

\* *types.Body and *compactBody: nil, or the two slices
NilBody == [nil |-> TRUE, Transactions |-> <<>>, Uncles |-> <<>>]

NilBlock == [nil |-> TRUE, header |-> NilHeader, body |-> NilBody,
             compact |-> NilBody, withdrawals |-> <<>>]

NewBlockWithHeader(header) ==
    [nil |-> FALSE, header |-> header, body |-> NilBody, compact |-> NilBody,
     withdrawals |-> <<>>]

\* a variant of WithCompactBody that leaves the uncle hashes out
WithCompactBodyNoUncles(b, transactions, uncles) ==
    [nil |-> FALSE, header |-> b.header, body |-> NilBody,
     compact |-> [nil |-> FALSE, Transactions |-> transactions, Uncles |-> <<>>],
     withdrawals |-> <<>>]

WithCompactBody(b, transactions, uncles) ==
    [nil |-> FALSE, header |-> b.header, body |-> NilBody,
     compact |-> [nil |-> FALSE, Transactions |-> transactions, Uncles |-> uncles],
     withdrawals |-> <<>>]

\* WithBody fills a new block and returns its receiver
WithBody(b, transactions, uncles) ==
    LET block == [nil |-> FALSE, header |-> b.header,
                  body |-> [nil |-> FALSE, Transactions |-> transactions,
                            Uncles |-> uncles],
                  compact |-> [nil |-> FALSE,
                               Transactions |-> [n \in 1..Len(transactions) |->
                                                    transactions[n].hash],
                               Uncles |-> [n \in 1..Len(uncles) |-> uncles[n].Hash]],
                  withdrawals |-> <<>>]
    IN b

WithWithdrawals(b, withdrawals) ==
    [nil |-> FALSE, header |-> b.header, body |-> b.body, compact |-> b.compact,
     withdrawals |-> IF Len(withdrawals) > 0 THEN withdrawals ELSE <<>>]

\* the header json.Unmarshal(raw, &header) leaves in the pointer
DecodeHeader(raw) == IF raw.kind = "null" THEN NilHeader ELSE Header(raw.hash)

\* the batch getBlockUncles builds: element idx asks for the uncle at index idx
UncleBatch(blockHash, hashes) ==
    [n \in 1..Len(hashes) |->
        [method |-> "eth_getUncleByBlockHashAndIndex", args |-> <<blockHash, n - 1>>]]

\* a variant of the check that accepts any non-null header
UncleCheckAnyHeader(reply, hashes) ==
    IF \E n \in 1..Len(reply) : reply[n].kind = "err" THEN ErrFault(0)
    ELSE IF \E n \in 1..Len(reply) : reply[n].kind = "null" THEN ErrNullHeader
    ELSE Nil

\* the loop of getBlockUncles over the answered batch: the error of the first
\* element that has one, is null or has another hash than asked for
UncleCheck(reply, hashes) ==
    IF \E n \in 1..Len(reply) :
          reply[n].kind # "hdr" \/ reply[n].hash # hashes[n]
    THEN LET n == CHOOSE k \in 1..Len(reply) :
                    /\ reply[k].kind # "hdr" \/ reply[k].hash # hashes[k]
                    /\ \A j \in 1..(k - 1) :
                          reply[j].kind = "hdr" /\ reply[j].hash = hashes[j]
         IN IF reply[n].kind = "err" THEN ErrFault(0)
            ELSE IF reply[n].kind = "null" THEN ErrNullHeader
            ELSE ErrWrongHeader
    ELSE Nil

\* the uncle headers decoded from the answered batch
UncleHeaders(reply) == [n \in 1..Len(reply) |-> Header(reply[n].hash)]

\* the Block of the full path
FullBlock(raw, uncles) ==
    WithWithdrawals(
        WithBody(NewBlockWithHeader(DecodeHeader(raw)),
                 [n \in 1..Len(raw.txs) |-> Tx(raw.txs[n])], uncles),
        raw.wds)

\* the Block of the compact path
CompactBlock(raw) ==
    WithWithdrawals(
        WithCompactBody(NewBlockWithHeader(DecodeHeader(raw)), raw.txs, raw.uncles),
        raw.wds)

BlockInit ==
    /\ gbPc = "idle"
    /\ gbFull = FALSE
    /\ gbRaw = NoRaw
    /\ gbLog = <<>>
    /\ gbReply = <<>>
    /\ gbBlock = NilBlock
    /\ gbErr = Nil

\* getBlock(ctx, caller, method, numOrHash, fullBlock) is entered and sends the
\* envelope request
GetBlockOf(method, numOrHash, full) ==
    /\ gbPc = "idle"
    /\ gbFull' = full
    /\ gbLog' = <<[op |-> "Call", full |-> full,
                   elems |-> <<[method |-> method, args |-> <<numOrHash>>]>>]>>
    /\ gbPc' = "call"
    /\ UNCHANGED <<gbRaw, gbReply, gbBlock, gbErr>>

GetBlock ==
    /\ gbPc = "idle"
    /\ \E method \in {"eth_getBlockByNumber", "eth_getBlockByHash"} :
       \E numOrHash \in Hashes :
       \E full \in BOOLEAN : GetBlockOf(method, numOrHash, full)
    /\ UNCHANGED nonBlockVars

\* getBlock returns (block, e)
GbReturn(block, e) ==
    /\ gbPc' = "done"
    /\ gbBlock' = block
    /\ gbErr' = e

\* client.Call fails
EnvelopeError ==
    /\ gbPc = "call"
    /\ \E e \in {ErrFault(0), ErrNoResult(0)} : GbReturn(NilBlock, e)
    /\ UNCHANGED <<gbFull, gbRaw, gbLog, gbReply>>
    /\ UNCHANGED nonBlockVars

\* the call has written raw: the envelope is decoded, and getBlock returns or,
\* on the full path of a block with uncles, sends the uncle batch
EnvelopeDecoded(raw) ==
    /\ gbPc = "call"
    /\ gbRaw' = raw
    /\ IF raw.kind = "empty" THEN
          GbReturn(NilBlock, ErrNotFound) /\ UNCHANGED gbLog
       ELSE IF raw.kind = "bad" THEN
          GbReturn(NilBlock, ErrDecode) /\ UNCHANGED gbLog
       ELSE IF raw.kind = "badbody" THEN
          GbReturn(NilBlock, ErrDecode) /\ UNCHANGED gbLog
       ELSE IF ~gbFull THEN
          GbReturn(CompactBlock(raw), Nil) /\ UNCHANGED gbLog
       ELSE IF DecodeHeader(raw).nil THEN
          \* header.Hash dereferences a nil pointer
          gbPc' = "panic" /\ UNCHANGED <<gbBlock, gbErr, gbLog>>
       ELSE IF Len(raw.uncles) = 0 THEN
          GbReturn(FullBlock(raw, <<>>), Nil) /\ UNCHANGED gbLog
       ELSE
          /\ gbPc' = "batch"
          /\ gbLog' = Append(gbLog,
                          [op |-> "BatchCall", full |-> FALSE,
                           elems |-> UncleBatch(DecodeHeader(raw).Hash, raw.uncles)])
          /\ UNCHANGED <<gbBlock, gbErr>>
    /\ UNCHANGED <<gbFull, gbReply>>

\* client.Call succeeds
EnvelopeReply ==
    /\ gbPc = "call"
    /\ \E raw \in RawPayloads : EnvelopeDecoded(raw)
    /\ UNCHANGED nonBlockVars

\* client.BatchCall fails
UnclesError ==
    /\ gbPc = "batch"
    /\ GbReturn(NilBlock, ErrFault(0))
    /\ UNCHANGED <<gbFull, gbRaw, gbLog, gbReply>>
    /\ UNCHANGED nonBlockVars

\* the batch has been answered: the headers are checked and the block is built
UnclesDecoded(reply) ==
    /\ gbPc = "batch"
    /\ gbReply' = reply
    /\ IF UncleCheck(reply, gbRaw.uncles) # Nil
       THEN GbReturn(NilBlock, UncleCheck(reply, gbRaw.uncles))
       ELSE GbReturn(FullBlock(gbRaw, UncleHeaders(reply)), Nil)
    /\ UNCHANGED <<gbFull, gbRaw, gbLog>>

\* client.BatchCall succeeds
UnclesReply ==
    /\ gbPc = "batch"
    /\ \E reply \in [1..Len(gbRaw.uncles) -> ElemReplies] : UnclesDecoded(reply)
    /\ UNCHANGED nonBlockVars

\* ------------------------------------------------------- receipt batcher

\* fmt.Errorf("got null receipt for tx hash %s", ...)
ErrNullReceipt == [class |-> "nullreceipt", from |-> 0]

\* fmt.Errorf("receipt %s does not belong to block %s", ...)
ErrWrongBlock == [class |-> "wrongblock", from |-> 0]

\* types.Receipts: nil, or a slice of receipts
NilReceipts == [nil |-> TRUE, list |-> <<>>]

Receipts(list) == [nil |-> FALSE, list |-> list]

\* a *types.Receipt
Receipt(txHash, blockHash) == [TransactionHash |-> txHash, BlockHash |-> blockHash]

\* no faulty element
NoBad == [kind |-> "none", pos |-> 0, hash |-> 0]

\* txHashes[start:end], with Go's zero-based half-open bounds
Slice(s, start, end) == [k \in 1..(end - start) |-> s[start + k]]

\* the batch batchGetTransactionReceipt builds: element i asks for the receipt
\* of txHashes[i]
ReceiptBatch(txHashes) ==
    [k \in 1..Len(txHashes) |->
        [method |-> "eth_getTransactionReceipt", args |-> <<txHashes[k]>>]]

\* what the server answers a batch with: element k is the receipt of the hash
\* the element asked for, in block blockHash, save for the faulty element: an
\* element error ("err"), a null receipt ("null") or a receipt of another block
\* ("wrong")
BatchReply(batch, blockHash, bad, offset) ==
    [k \in 1..Len(batch) |->
        IF bad.pos = offset + k /\ bad.kind \in {"err", "null"}
        THEN [kind |-> bad.kind, receipt |-> Receipt(0, 0)]
        ELSE IF bad.pos = offset + k /\ bad.kind = "wrong"
        THEN [kind |-> "rcpt", receipt |-> Receipt(batch[k].args[1], bad.hash)]
        ELSE [kind |-> "rcpt", receipt |-> Receipt(batch[k].args[1], blockHash)]]

\* a variant of the check that lets a null receipt pass
ReceiptCheckSkipsNull(reply) ==
    IF \E k \in 1..Len(reply) : reply[k].kind = "err" THEN ErrFault(0) ELSE Nil

\* the loop of batchGetTransactionReceipt over the answered batch: the error of
\* the first element that has one or is null
ReceiptCheck(reply) ==
    IF \E k \in 1..Len(reply) : reply[k].kind # "rcpt"
    THEN LET k == CHOOSE j \in 1..Len(reply) :
                    /\ reply[j].kind # "rcpt"
                    /\ \A m \in 1..(j - 1) : reply[m].kind = "rcpt"
         IN IF reply[k].kind = "err" THEN ErrFault(0) ELSE ErrNullReceipt
    ELSE Nil

\* the receipts decoded from the answered batch
ReceiptsOf(reply) == [k \in 1..Len(reply) |-> reply[k].receipt]

\* a variant that rounds the number of chunks down
BatchCountFloor(n) == n \div rpcRequestBatchSize

\* batchCount := (len(txHashes) + rpcRequestBatchSize - 1) / rpcRequestBatchSize
BatchCount(n) == (n + rpcRequestBatchSize - 1) \div rpcRequestBatchSize

\* start and end of chunk i
ChunkStart(i) == i * rpcRequestBatchSize

ChunkEnd(i, n) ==
    IF ChunkStart(i) + rpcRequestBatchSize > n THEN n
    ELSE ChunkStart(i) + rpcRequestBatchSize

\* the lists of at most rpcRequestBatchSize hashes are fetched in one batch, by
\* batchGetTransactionReceipt alone
Chunked(n) == ~(n <= rpcRequestBatchSize)

\* the loop over ret after the last chunk
BlockHashCheck(receipts, blockHash) ==
    IF \E k \in 1..Len(receipts) : receipts[k].BlockHash # blockHash
    THEN ErrWrongBlock ELSE Nil

ReceiptInit ==
    /\ rcPc = "idle"
    /\ rcBlockHash = 0
    /\ rcTxHashes = <<>>
    /\ rcI = 0
    /\ rcRet = <<>>
    /\ rcLog = <<>>
    /\ rcBad = NoBad
    /\ rcOut = NilReceipts
    /\ rcErr = Nil

\* getBlockReceiptsByHashes returns (receipts, e)
RcReturn(receipts, e) ==
    /\ rcPc' = "done"
    /\ rcOut' = receipts
    /\ rcErr' = e

\* batchGetTransactionReceipt sends the batch for txHashes[start:end]
RcSend(txHashes, start, end) ==
    /\ rcPc' = "batch"
    /\ rcLog' = Append(rcLog, [op |-> "BatchCall",
                               elems |-> ReceiptBatch(Slice(txHashes, start, end))])

\* getBlockReceiptsByHashes(ctx, caller, blockHash, txHashes) is entered with
\* a list of n hashes: an empty list returns at once, any other sends its first
\* batch
GetReceiptsOf(blockHash, n) ==
    /\ rcPc = "idle"
    /\ rcBlockHash' = blockHash
    /\ LET txHashes == [k \in 1..n |-> k] IN
          /\ rcTxHashes' = txHashes
          /\ IF n = 0
             THEN RcReturn(Receipts(<<>>), Nil) /\ UNCHANGED rcLog
             ELSE /\ RcSend(txHashes, 0, ChunkEnd(0, n))
                  /\ UNCHANGED <<rcOut, rcErr>>
    /\ UNCHANGED <<rcI, rcRet, rcBad>>

GetReceipts ==
    /\ rcPc = "idle"
    /\ \E blockHash \in Hashes : \E n \in 0..MaxTxHashes : GetReceiptsOf(blockHash, n)
    /\ UNCHANGED nonReceiptVars

\* client.BatchCall fails
ReceiptsError ==
    /\ rcPc = "batch"
    /\ RcReturn(NilReceipts, ErrFault(0))
    /\ UNCHANGED <<rcBlockHash, rcTxHashes, rcI, rcRet, rcLog, rcBad>>
    /\ UNCHANGED nonReceiptVars

\* the positions of txHashes[start:end] at which the server's answer is made
\* faulty: the first, the middle and the last element of the batch
FaultPositions(start, end) == {start + 1, (start + 1 + end) \div 2, end}

\* the faulty elements the server can put into its answer to chunk i: none, or
\* one element of this chunk when every element so far was good
BadChoices(i, n, blockHash, bad) ==
    {bad} \cup
    IF bad # NoBad THEN {}
    ELSE {[kind |-> k, pos |-> p, hash |-> 0] :
             k \in {"err", "null"}, p \in FaultPositions(ChunkStart(i), ChunkEnd(i, n))}
         \cup {[kind |-> "wrong", pos |-> p, hash |-> h] :
                  p \in FaultPositions(ChunkStart(i), ChunkEnd(i, n)),
                  h \in Hashes \ {blockHash}}

\* the batch has been answered: the chunk is checked; then the receipts are
\* returned, the next chunk is sent, or the block hashes are checked
ReceiptsDecoded(bad) ==
    /\ rcPc = "batch"
    /\ LET n == Len(rcTxHashes)
           batch == rcLog[Len(rcLog)].elems
           reply == BatchReply(batch, rcBlockHash, bad, ChunkStart(rcI))
           all == rcRet \o ReceiptsOf(reply)
       IN /\ rcBad' = bad
          /\ IF ReceiptCheck(reply) # Nil THEN
                /\ RcReturn(NilReceipts, ReceiptCheck(reply))
                /\ UNCHANGED <<rcI, rcRet, rcLog>>
             ELSE IF ~Chunked(n) THEN
                /\ RcReturn(Receipts(ReceiptsOf(reply)), Nil)
                /\ UNCHANGED <<rcI, rcRet, rcLog>>
             ELSE IF rcI + 1 < BatchCount(n) THEN
                /\ rcI' = rcI + 1
                /\ rcRet' = all
                /\ RcSend(rcTxHashes, ChunkStart(rcI + 1), ChunkEnd(rcI + 1, n))
                /\ UNCHANGED <<rcOut, rcErr>>
             ELSE
                /\ rcI' = rcI + 1
                /\ rcRet' = all
                /\ IF BlockHashCheck(all, rcBlockHash) # Nil
                   THEN RcReturn(NilReceipts, BlockHashCheck(all, rcBlockHash))
                   ELSE RcReturn(Receipts(all), Nil)
                /\ UNCHANGED rcLog
    /\ UNCHANGED <<rcBlockHash, rcTxHashes>>

\* client.BatchCall succeeds
ReceiptsReply ==
    /\ rcPc = "batch"
    /\ \E bad \in BadChoices(rcI, Len(rcTxHashes), rcBlockHash, rcBad) :
          ReceiptsDecoded(bad)
    /\ UNCHANGED nonReceiptVars

\* -------------------------------------------- block-number parameters

\* strings are sequences of characters
Latest == <<"l", "a", "t", "e", "s", "t">>

Pending == <<"p", "e", "n", "d", "i", "n", "g">>

HexChars == <<"0", "1", "2", "3", "4", "5", "6", "7", "8", "9",
              "a", "b", "c", "d", "e", "f">>

\* a *big.Int: nil, or a number
NilNumber == [nil |-> TRUE, v |-> 0]

Number(v) == [nil |-> FALSE, v |-> v]

\* big.Int.Text(16) of a number >= 0: its digits, most significant first, no
\* leading zero
RECURSIVE Text16(_)
Text16(n) ==
    IF n < 16 THEN <<HexChars[n + 1]>>
    ELSE Append(Text16(n \div 16), HexChars[(n % 16) + 1])

\* hexutil.EncodeBig
EncodeBig(n) ==
    IF n = 0 THEN <<"0", "x", "0">>
    ELSE IF n > 0 THEN <<"0", "x">> \o Text16(n)
    ELSE <<"-", "0", "x">> \o Text16(0 - n)

\* a variant that knows no "pending"
ToBlockNumArgNoPending(number) ==
    IF number.nil THEN Latest ELSE EncodeBig(number.v)

toBlockNumArg(number) ==
    IF number.nil THEN Latest
    ELSE IF number.v = -1 THEN Pending
    ELSE EncodeBig(number.v)

\* common.Hash.Hex() of hash h: the hash is kept abstract
HashHex(h) == <<"0", "x", "#", h>>

\* the error of parseNumberOrHash
ErrInvalidArg == [class |-> "invalidarg", from |-> 0]

\* parseNumberOrHash: v is a [type, val] pair standing for the interface{}
parseNumberOrHash(v) ==
    CASE v.type = "*big.Int" -> [arg |-> toBlockNumArg(v.val), err |-> Nil]
      [] v.type = "common.Hash" -> [arg |-> HashHex(v.val), err |-> Nil]
      [] OTHER -> [arg |-> <<>>, err |-> ErrInvalidArg]

\* the numbers the chain queries are called with
Numbers == {NilNumber} \cup {Number(v) : v \in (0 - 2)..MaxNumber}

\* the two implementations of RemoteChainReader
Receivers == {"ETHClient", "RpcConnectionPool"}

NoRequest == [recv |-> "", op |-> "", number |-> NilNumber, method |-> "",
              params |-> <<>>, err |-> Nil]

RequestInit ==
    /\ rqPc = "idle"
    /\ rqReq = NoRequest

\* a chain query hands method and params to Call
Send(recv, op, number, method, params) ==
    /\ rqPc = "idle"
    /\ rqPc' = "sent"
    /\ rqReq' = [recv |-> recv, op |-> op, number |-> number, method |-> method,
                 params |-> params, err |-> Nil]
    /\ UNCHANGED nonRequestVars

\* BlockByNumber: getBlock(ctx, ., "eth_getBlockByNumber", toBlockNumArg(number), fullBlock)
BlockByNumber(recv) ==
    \E number \in Numbers : \E fullBlock \in BOOLEAN :
        Send(recv, "BlockByNumber", number, "eth_getBlockByNumber",
             <<toBlockNumArg(number), fullBlock>>)

\* CodeAt: Call(ctx, &result, "eth_getCode", account, toBlockNumArg(number))
CodeAt(recv) ==
    \E number \in Numbers :
        Send(recv, "CodeAt", number, "eth_getCode",
             <<"account", toBlockNumArg(number)>>)

\* CallContract: Call(ctx, &hex, "eth_call", toCallArg(msg), toBlockNumArg(blockNumber))
CallContract(recv) ==
    \E number \in Numbers :
        Send(recv, "CallContract", number, "eth_call",
             <<"msg", toBlockNumArg(number)>>)

\* BlockReceipts: parseNumberOrHash, then Call(ctx, &result,
\* "eth_getBlockReceipts", numberOrHashArg); an argument that is neither a
\* number nor a hash returns the error and sends nothing
BlockReceipts(recv) ==
    \/ \E number \in Numbers :
          Send(recv, "BlockReceipts", number, "eth_getBlockReceipts",
               <<parseNumberOrHash([type |-> "*big.Int", val |-> number]).arg>>)
    \/ \E h \in Hashes :
          Send(recv, "BlockReceiptsByHash", Number(h), "eth_getBlockReceipts",
               <<parseNumberOrHash([type |-> "common.Hash", val |-> h]).arg>>)
    \/ /\ rqPc = "idle"
       /\ rqPc' = "sent"
       /\ rqReq' = [NoRequest EXCEPT !.recv = recv, !.op = "BlockReceiptsInvalid",
                       !.err = parseNumberOrHash([type |-> "string", val |-> 0]).err]
       /\ UNCHANGED nonRequestVars

\* ----------------------------------------------------- pool construction

Urls == 1..NumUrls

Latencies == 1..MaxLatency

\* fmt.Errorf("no connection established")
ErrNoConnection == [class |-> "noconnection", from |-> 0]

\* a connected *ETHClient
Client(url, latency) == [url |-> url, latency |-> latency]

\* a nil *RpcConnectionPool
NilPool == [nil |-> TRUE, clients |-> <<>>, status |-> <<>>, quit |-> FALSE]

NewRpcConnectionPool(clients) ==
    [nil |-> FALSE, clients |-> clients,
     status |-> [i \in 1..Len(clients) |-> 0], quit |-> FALSE]

\* the rearrangements of a slice
Rearrangements(seq) ==
    {[i \in 1..Len(seq) |-> seq[f[i]]] :
        f \in {g \in [1..Len(seq) -> 1..Len(seq)] :
                  \A i, j \in 1..Len(seq) : i # j => g[i] # g[j]}}

\* a variant that leaves the slice in the order of arrival
SortSliceSkipped(clients) == {clients}

\* sort.Slice(clients, less) with less = Latency() < Latency(): the slice
\* rearranged so that no element is less than one before it; the order of
\* elements with equal latency is not determined
SortSlice(clients) ==
    {sorted \in Rearrangements(clients) :
        \A i, j \in 1..Len(sorted) : i < j => ~(sorted[j].latency < sorted[i].latency)}

SetupInit ==
    /\ suPc = "loop"
    /\ suNext = 1
    /\ suG = [u \in Urls |-> "idle"]
    /\ suResult = [u \in Urls |-> [st |-> "none", latency |-> 0]]
    /\ suSem = 0
    /\ suWg = 0
    /\ suClients = <<>>
    /\ suPool = NilPool
    /\ suErr = Nil

\* one iteration of the loop over urls: sem <- struct{}{}, wg.Add(1), go func
Spawn ==
    /\ suPc = "loop"
    /\ suNext <= NumUrls
    /\ suSem < SemCapacity
    /\ suSem' = suSem + 1
    /\ suWg' = suWg + 1
    /\ suG' = [suG EXCEPT ![suNext] = "dialing"]
    /\ suNext' = suNext + 1
    /\ suPc' = IF suNext + 1 > NumUrls THEN "wait" ELSE "loop"
    /\ UNCHANGED <<suResult, suClients, suPool, suErr>>
    /\ UNCHANGED nonSetupVars

\* DialContext succeeds with a measured latency: the client is appended to
\* clients under the lock
DialOk(u) ==
    /\ suG[u] = "dialing"
    /\ \E latency \in Latencies :
          /\ suResult' = [suResult EXCEPT ![u] = [st |-> "ok", latency |-> latency]]
          /\ suClients' = Append(suClients, Client(u, latency))
    /\ suG' = [suG EXCEPT ![u] = "exiting"]
    /\ UNCHANGED <<suPc, suNext, suSem, suWg, suPool, suErr>>
    /\ UNCHANGED nonSetupVars

\* DialContext fails or its context times out: the goroutine returns
DialFail(u) ==
    /\ suG[u] = "dialing"
    /\ suResult' = [suResult EXCEPT ![u] = [st |-> "failed", latency |-> 0]]
    /\ suG' = [suG EXCEPT ![u] = "exiting"]
    /\ UNCHANGED <<suPc, suNext, suSem, suWg, suClients, suPool, suErr>>
    /\ UNCHANGED nonSetupVars

\* the deferred function: wg.Done() and <-sem
Exit(u) ==
    /\ suG[u] = "exiting"
    /\ suWg' = suWg - 1
    /\ suSem' = suSem - 1
    /\ suG' = [suG EXCEPT ![u] = "gone"]
    /\ UNCHANGED <<suPc, suNext, suResult, suClients, suPool, suErr>>
    /\ UNCHANGED nonSetupVars

\* wg.Wait() returns: the clients are sorted and the pool is built, or the
\* construction fails
Finish ==
    /\ suPc = "wait"
    /\ suWg = 0
    /\ suPc' = "done"
    /\ IF Len(suClients) > 0
       THEN /\ \E sorted \in SortSlice(suClients) :
                  suPool' = NewRpcConnectionPool(sorted)
            /\ suErr' = Nil
       ELSE /\ suPool' = NilPool
            /\ suErr' = ErrNoConnection
    /\ UNCHANGED <<suNext, suG, suResult, suSem, suWg, suClients>>
    /\ UNCHANGED nonSetupVars

\* ------------------------------------- getBlock and receipts over the pool

\* the goroutine that runs getBlock / getBlockReceiptsByHashes with the pool
\* as their rpcCaller
Reader == 1

Min(a, b) == IF a < b THEN a ELSE b

\* the simulated chain: the envelope a healthy node returns for block n
ChainBlock(n) ==
    [kind |-> "obj", hash |-> n, txs |-> [k \in 1..MaxTxs |-> n],
     uncles |-> [k \in 1..Min(n - 1, MaxUncles) |-> k], wds |-> <<>>]

\* the payload left in raw when no endpoint has written to it
EmptyPayload == [kind |-> "empty", hash |-> 0, txs |-> <<>>, uncles |-> <<>>, wds |-> <<>>]

\* an endpoint has answered the call
Served(log) == \E n \in 1..Len(log) : log[n].out = "ok"

\* the endpoint that answered the call, 0 if none did
ServedBy(log) == IF Served(log) THEN log[Len(log)].i ELSE 0

\* the endpoints the call has claimed
Claimed(log) == {log[n].i : n \in {m \in 1..Len(log) : log[m].out # "busy"}}

\* the endpoint that answered the call is free in st
ServedFree(log, st) == Served(log) => st[ServedBy(log)] = 0

\* every endpoint the call has claimed is free in st
AsFound(log, st) == \A i \in Claimed(log) : st[i] = 0

NoFirst == [set |-> FALSE, arg |-> 0, full |-> FALSE, block |-> NilBlock,
            err |-> Nil, served |-> 0, servedFree |-> TRUE, asFound |-> TRUE]

ReaderInit ==
    /\ rdServed = 0
    /\ rdServedFree = TRUE
    /\ rdAsFound = TRUE
    /\ rdFirst = NoFirst

\* RpcConnectionPool.BlockByNumber: getBlock(ctx, p, "eth_getBlockByNumber", ...);
\* the second call asks for the number of the first
RdGetBlock ==
    /\ gbPc = "idle"
    /\ rcPc = "idle"
    /\ \E number \in IF rdFirst.set THEN {rdFirst.arg} ELSE Hashes :
       \E full \in BOOLEAN : GetBlockOf("eth_getBlockByNumber", number, full)
    /\ UNCHANGED <<poolVars, callVars, receiptVars, requestVars, setupVars,
                 disciplineVars, dialVars, endpointVars, equivVars, readerVars>>

\* getBlockReceiptsByHashes(ctx, p, ...) for a list of one chunk and for a list
\* of two, as the reader's only operation
RdGetReceipts ==
    /\ gbPc = "idle"
    /\ rcPc = "idle"
    /\ ~rdFirst.set
    /\ \E blockHash \in Hashes :
       \E n \in {1, rpcRequestBatchSize + 1} : GetReceiptsOf(blockHash, n)
    /\ UNCHANGED <<poolVars, callVars, blockVars, requestVars, setupVars,
                 disciplineVars, dialVars, endpointVars, equivVars, readerVars>>

\* the request the assembler or the batcher is waiting for enters p.Call or
\* p.BatchCall
RdStart ==
    /\ gbPc \in {"call", "batch"} \/ rcPc = "batch"
    /\ Start(Reader)
    /\ kind'[Reader] = IF gbPc = "call" THEN "Call" ELSE "BatchCall"

\* p.Call / p.BatchCall returns to the assembler or the batcher
RdReturn ==
    /\ ReturnStep(Reader)
    /\ rdServed' = ServedBy(vis[Reader])
    /\ rdServedFree' = ServedFree(vis[Reader], status)
    /\ rdAsFound' = AsFound(vis[Reader], status)
    /\ UNCHANGED <<rdFirst, requestVars, setupVars,
                 disciplineVars, dialVars, endpointVars, equivVars>>

\* p.Call returns an error to getBlock
RdEnvelopeError ==
    /\ gbPc = "call"
    /\ ret[Reader] # Nil
    /\ GbReturn(NilBlock, ret[Reader])
    /\ UNCHANGED <<gbFull, gbRaw, gbLog, gbReply>>
    /\ RdReturn
    /\ UNCHANGED receiptVars

\* p.Call returns nil to getBlock: raw holds the chain's block if an endpoint
\* answered, and nothing if none did
RdEnvelopeReply ==
    /\ gbPc = "call"
    /\ ret[Reader] = Nil
    /\ EnvelopeDecoded(IF Served(vis[Reader])
                       THEN ChainBlock(gbLog[1].elems[1].args[1])
                       ELSE EmptyPayload)
    /\ RdReturn
    /\ UNCHANGED receiptVars

\* p.BatchCall returns an error to getBlockUncles
RdUnclesError ==
    /\ gbPc = "batch"
    /\ ret[Reader] # Nil
    /\ GbReturn(NilBlock, ret[Reader])
    /\ UNCHANGED <<gbFull, gbRaw, gbLog, gbReply>>
    /\ RdReturn
    /\ UNCHANGED receiptVars

\* p.BatchCall returns nil to getBlockUncles: no element has an error
\* (getBatchErr), the headers are whatever the endpoint sent
RdUnclesReply ==
    /\ gbPc = "batch"
    /\ ret[Reader] = Nil
    /\ \E reply \in [1..Len(gbRaw.uncles) -> {r \in ElemReplies : r.kind # "err"}] :
          UnclesDecoded(reply)
    /\ RdReturn
    /\ UNCHANGED receiptVars

\* p.BatchCall returns an error to batchGetTransactionReceipt
RdReceiptsError ==
    /\ rcPc = "batch"
    /\ ret[Reader] # Nil
    /\ RcReturn(NilReceipts, ret[Reader])
    /\ UNCHANGED <<rcBlockHash, rcTxHashes, rcI, rcRet, rcLog, rcBad>>
    /\ RdReturn
    /\ UNCHANGED blockVars

\* p.BatchCall returns nil to batchGetTransactionReceipt: no element has an
\* error (getBatchErr), the receipts are whatever the endpoint sent
RdReceiptsReply ==
    /\ rcPc = "batch"
    /\ ret[Reader] = Nil
    /\ \E bad \in BadChoices(rcI, Len(rcTxHashes), rcBlockHash, rcBad) :
          bad.kind # "err" /\ ReceiptsDecoded(bad)
    /\ RdReturn
    /\ UNCHANGED blockVars

\* the first getBlock has returned and the reader goes on to a second operation
RdAgain ==
    /\ gbPc = "done"
    /\ ~rdFirst.set
    /\ calls < MaxCalls
    /\ rdFirst' = [set |-> TRUE, arg |-> gbLog[1].elems[1].args[1],
                   full |-> gbFull, block |-> gbBlock, err |-> gbErr,
                   served |-> rdServed, servedFree |-> rdServedFree,
                   asFound |-> rdAsFound]
    /\ gbPc' = "idle"
    /\ gbFull' = FALSE
    /\ gbRaw' = NoRaw
    /\ gbLog' = <<>>
    /\ gbReply' = <<>>
    /\ gbBlock' = NilBlock
    /\ gbErr' = Nil
    /\ rcPc' = "idle"
    /\ rcBlockHash' = 0
    /\ rcTxHashes' = <<>>
    /\ rcI' = 0
    /\ rcRet' = <<>>
    /\ rcLog' = <<>>
    /\ rcBad' = NoBad
    /\ rcOut' = NilReceipts
    /\ rcErr' = Nil
    /\ rdServed' = 0
    /\ rdServedFree' = TRUE
    /\ rdAsFound' = TRUE
    /\ UNCHANGED <<poolVars, callVars, requestVars, setupVars,
                 disciplineVars, dialVars, endpointVars, equivVars>>

\* ------------------------------------- Call and BatchCall, side by side

\* the classes of answer of an endpoint to a request: success, rpc.ErrNoResult
\* / ethereum.NotFound, and any other failure (for BatchCall also an element
\* error found by getBatchErr)
AnswerClasses == {"ok", "noresult", "fault"}

\* the state of the loop over p.clients: the flags, the endpoints a cooldown
\* goroutine was started for, err, allBusy and the endpoints attempted
ScanState(st) == [status |-> st, cools |-> {}, err |-> Nil, busy |-> TRUE, tried |-> <<>>]

\* what the function has done when it returns
ScanResult(s, e) == [status |-> s.status, cools |-> s.cools, ret |-> e, tried |-> s.tried]

\* no run yet
NoRun == [status |-> <<>>, cools |-> {}, ret |-> Nil, tried |-> <<>>]

\* the loop of Call (k = "Call") and of BatchCall from endpoint i on, when the
\* flags change only by this call and endpoint j answers outs[j]
RECURSIVE Scan(_, _, _, _)
Scan(k, i, outs, s) ==
    IF i > NumClients THEN ScanResult(s, ReturnAfterLoop(k, s.busy, s.err))
    ELSE IF s.status[i] # 0 THEN Scan(k, i + 1, outs, s)
    ELSE LET e == ErrorOf(outs[i], i)
             claimed == [s EXCEPT !.status[i] = 1,
                                  !.busy = IF k = "BatchCall" THEN FALSE ELSE @,
                                  !.tried = Append(@, i)]
         IN IF outs[i] = "ok"
            THEN ScanResult([claimed EXCEPT !.status = Release(@, i)], Nil)
            ELSE Scan(k, i + 1, outs,
                      [claimed EXCEPT !.err = e,
                                      !.cools = IF ShouldCooldown(k, e)
                                                THEN @ \cup {i} ELSE @])

DisciplineInit ==
    /\ dsPc = "idle"
    /\ dsStatus = <<>>
    /\ dsOuts = <<>>
    /\ dsCall = NoRun
    /\ dsBatch = NoRun

\* a pool state (endpoints held by other goroutines are busy) and the answers
\* of the endpoints are fixed
DsChoose ==
    /\ dsPc = "idle"
    /\ \E st \in [Clients -> {0, 1}] : dsStatus' = st
    /\ \E outs \in [Clients -> AnswerClasses] : dsOuts' = outs
    /\ dsPc' = "chosen"
    /\ UNCHANGED <<dsCall, dsBatch>>
    /\ UNCHANGED nonDisciplineVars

\* p.Call runs from that state
DsCall ==
    /\ dsPc = "chosen"
    /\ dsCall = NoRun
    /\ dsCall' = Scan("Call", 1, dsOuts, ScanState(dsStatus))
    /\ UNCHANGED <<dsPc, dsStatus, dsOuts, dsBatch>>
    /\ UNCHANGED nonDisciplineVars

\* p.BatchCall runs from that state
DsBatchCall ==
    /\ dsPc = "chosen"
    /\ dsBatch = NoRun
    /\ dsBatch' = Scan("BatchCall", 1, dsOuts, ScanState(dsStatus))
    /\ UNCHANGED <<dsPc, dsStatus, dsOuts, dsCall>>
    /\ UNCHANGED nonDisciplineVars

\* both have returned; another state and other answers are looked at
DsAgain ==
    /\ dsPc = "chosen"
    /\ dsCall # NoRun
    /\ dsBatch # NoRun
    /\ dsPc' = "idle"
    /\ dsStatus' = <<>>
    /\ dsOuts' = <<>>
    /\ dsCall' = NoRun
    /\ dsBatch' = NoRun
    /\ UNCHANGED nonDisciplineVars

\* ------------------------------- the semaphore of pool construction

DialUrls == 1..NumDialUrls

DialInit ==
    /\ dlPc = "loop"
    /\ dlNext = 1
    /\ dlG = [u \in DialUrls |-> "idle"]
    /\ dlSem = 0
    /\ dlWg = 0

\* a variant of the loop body that starts the goroutine without a token of sem
DlSpawnNoSem ==
    /\ dlPc = "loop"
    /\ dlNext <= NumDialUrls
    /\ dlWg' = dlWg + 1
    /\ dlG' = [dlG EXCEPT ![dlNext] = "dialing"]
    /\ dlNext' = dlNext + 1
    /\ UNCHANGED <<dlPc, dlSem>>
    /\ UNCHANGED nonDialVars

\* one iteration of the loop over urls: sem <- struct{}{} (blocks while sem is
\* full), wg.Add(1), go func
DlSpawn ==
    /\ dlPc = "loop"
    /\ dlNext <= NumDialUrls
    /\ dlSem < SemCapacity
    /\ dlSem' = dlSem + 1
    /\ dlWg' = dlWg + 1
    /\ dlG' = [dlG EXCEPT ![dlNext] = "dialing"]
    /\ dlNext' = dlNext + 1
    /\ UNCHANGED dlPc
    /\ UNCHANGED nonDialVars

\* the loop over urls ends and the function reaches wg.Wait
DlLoopEnd ==
    /\ dlPc = "loop"
    /\ dlNext > NumDialUrls
    /\ dlPc' = "wait"
    /\ UNCHANGED <<dlNext, dlG, dlSem, dlWg>>
    /\ UNCHANGED nonDialVars

\* DialContext returns a client
DlDialOk(u) ==
    /\ dlG[u] = "dialing"
    /\ dlG' = [dlG EXCEPT ![u] = "ok"]
    /\ UNCHANGED <<dlPc, dlNext, dlSem, dlWg>>
    /\ UNCHANGED nonDialVars

\* DialContext returns an error: the dial failed, or rpcDialTimeout ended it
DlDialFail(u) ==
    /\ dlG[u] = "dialing"
    /\ dlG' = [dlG EXCEPT ![u] = "failed"]
    /\ UNCHANGED <<dlPc, dlNext, dlSem, dlWg>>
    /\ UNCHANGED nonDialVars

\* the deferred function: wg.Done()
DlDone(u) ==
    /\ dlG[u] \in {"ok", "failed"}
    /\ dlWg' = dlWg - 1
    /\ dlG' = [dlG EXCEPT ![u] = "release"]
    /\ UNCHANGED <<dlPc, dlNext, dlSem>>
    /\ UNCHANGED nonDialVars

\* the deferred function: <-sem
DlRelease(u) ==
    /\ dlG[u] = "release"
    /\ dlSem > 0
    /\ dlSem' = dlSem - 1
    /\ dlG' = [dlG EXCEPT ![u] = "gone"]
    /\ UNCHANGED <<dlPc, dlNext, dlWg>>
    /\ UNCHANGED nonDialVars

\* wg.Wait returns and SetupConnectionPool goes on to its return
DlWait ==
    /\ dlPc = "wait"
    /\ dlWg = 0
    /\ dlPc' = "done"
    /\ UNCHANGED <<dlNext, dlG, dlSem, dlWg>>
    /\ UNCHANGED nonDialVars

\* --------------- the chain queries of ETHClient and RpcConnectionPool

\* the chain queries of RemoteChainReader
Operations == {"NetworkID", "BlockByHash", "BlockByNumber", "BlockNumber",
               "TransactionByHash", "TransactionReceipt", "BlockReceipts",
               "CodeAt", "CallContract"}

NoArgs == [number |-> NilNumber, hash |-> 0, full |-> FALSE, type |-> ""]

\* the arguments each chain query can be called with
ArgsOf(op) ==
    CASE op \in {"NetworkID", "BlockNumber"} -> {NoArgs}
      [] op = "BlockByHash" ->
            {[NoArgs EXCEPT !.hash = h, !.full = f] : h \in Hashes, f \in BOOLEAN}
      [] op = "BlockByNumber" ->
            {[NoArgs EXCEPT !.number = n, !.full = f] : n \in Numbers, f \in BOOLEAN}
      [] op \in {"TransactionByHash", "TransactionReceipt"} ->
            {[NoArgs EXCEPT !.hash = h] : h \in Hashes}
      [] op = "BlockReceipts" ->
            {[NoArgs EXCEPT !.number = n, !.type = "*big.Int"] : n \in Numbers}
            \cup {[NoArgs EXCEPT !.hash = h, !.type = "common.Hash"] : h \in Hashes}
            \cup {[NoArgs EXCEPT !.type = "string"]}
      [] OTHER -> {[NoArgs EXCEPT !.number = n] : n \in Numbers}

\* the interface{} argument of BlockReceipts
NumberOrHash(arg) ==
    [type |-> arg.type,
     val |-> IF arg.type = "*big.Int" THEN arg.number
             ELSE IF arg.type = "common.Hash" THEN arg.hash ELSE 0]

\* a request handed to Call, or the error returned before any request
Request(method, params) == [method |-> method, params |-> params, err |-> Nil]

\* the method BlockByHash hands to getBlock
BlockByHashMethod(recv) ==
    IF recv = "ETHClient" THEN "eth_getBlockByNumber" ELSE "eth_getBlockByHash"

\* the request each chain query of each implementation hands to Call (the
\* first request, for getBlock)
RequestOf(recv, op, arg) ==
    CASE op = "NetworkID" -> Request("net_version", <<>>)
      [] op = "BlockByHash" ->
            Request(BlockByHashMethod(recv), <<HashHex(arg.hash), arg.full>>)
      [] op = "BlockByNumber" ->
            Request("eth_getBlockByNumber", <<toBlockNumArg(arg.number), arg.full>>)
      [] op = "BlockNumber" -> Request("eth_blockNumber", <<>>)
      [] op = "TransactionByHash" ->
            Request("eth_getTransactionByHash", <<HashHex(arg.hash)>>)
      [] op = "TransactionReceipt" ->
            Request("eth_getTransactionReceipt", <<HashHex(arg.hash)>>)
      [] op = "BlockReceipts" ->
            LET parsed == parseNumberOrHash(NumberOrHash(arg)) IN
            IF parsed.err # Nil
            THEN [method |-> "", params |-> <<>>, err |-> parsed.err]
            ELSE Request("eth_getBlockReceipts", <<parsed.arg>>)
      [] op = "CodeAt" ->
            Request("eth_getCode", <<"account", toBlockNumArg(arg.number)>>)
      [] OTHER ->
            Request("eth_call", <<"msg", toBlockNumArg(arg.number)>>)

\* what the endpoint can answer to a request: a well-formed value, the JSON
\* null, a value the caller cannot use (net_version not decimal, a block number
\* not hex, a transaction without signature), or an error
AnswerKinds == {"value", "null", "unusable", "error"}

\* fmt.Errorf("invalid net_version result %q", ver), hexutil.DecodeBig's error,
\* fmt.Errorf("server returned transaction without signature")
ErrUnusable == [class |-> "unusable", from |-> 0]

\* what the caller gets: nothing and an error, or the value the endpoint holds
\* for the request
Failed(e) == [val |-> <<>>, err |-> e]

Value(req) == [val |-> <<req.method, req.params>>, err |-> Nil]

\* Call on the *ETHClient, and Call on a pool whose one endpoint is free and
\* healthy: the compare-and-swap succeeds and the error of client.Call, nil
\* or not, is what the pool returns, the loop having no other endpoint
CallOn(recv, answer) == IF answer = "error" THEN ErrFault(1) ELSE Nil

\* what each chain query makes of the answer
ResultOf(recv, op, req, answer) ==
    LET e == CallOn(recv, answer) IN
    IF req.err # Nil THEN Failed(req.err)
    ELSE IF e # Nil THEN Failed(e)
    ELSE CASE op \in {"NetworkID", "BlockNumber"} ->
                IF answer = "value" THEN Value(req) ELSE Failed(ErrUnusable)
           [] op = "TransactionByHash" ->
                IF answer = "null" THEN Failed(ErrNotFound)
                ELSE IF answer = "unusable" THEN Failed(ErrUnusable)
                ELSE Value(req)
           [] op \in {"TransactionReceipt", "BlockByHash", "BlockByNumber"} ->
                IF answer = "null" THEN Failed(ErrNotFound)
                ELSE IF answer = "unusable" THEN Failed(ErrDecode)
                ELSE Value(req)
           [] OTHER ->
                IF answer = "value" THEN Value(req) ELSE [val |-> <<answer>>, err |-> Nil]

NoQuery == [req |-> Request("", <<>>), res |-> Failed(Nil)]

EquivInit ==
    /\ eqPc = "idle"
    /\ eqOp = [op |-> "", arg |-> NoArgs]
    /\ eqDirect = NoQuery
    /\ eqPooled = NoQuery

\* the same chain query with the same arguments on both implementations:
\* each builds its request
EqQuery ==
    /\ eqPc = "idle"
    /\ \E op \in Operations : \E arg \in ArgsOf(op) :
          /\ eqOp' = [op |-> op, arg |-> arg]
          /\ eqDirect' = [eqDirect EXCEPT !.req = RequestOf("ETHClient", op, arg)]
          /\ eqPooled' = [eqPooled EXCEPT !.req = RequestOf("RpcConnectionPool", op, arg)]
    /\ eqPc' = "sent"
    /\ UNCHANGED nonEquivVars

\* the endpoint answers, the same to both when the requests are the same (the
\* chain does not change in between), and both queries return
EqAnswer ==
    /\ eqPc = "sent"
    /\ \E direct, pooled \in AnswerKinds :
          /\ eqDirect.req = eqPooled.req => direct = pooled
          /\ eqDirect' = [eqDirect EXCEPT
                !.res = ResultOf("ETHClient", eqOp.op, eqDirect.req, direct)]
          /\ eqPooled' = [eqPooled EXCEPT
                !.res = ResultOf("RpcConnectionPool", eqOp.op, eqPooled.req, pooled)]
    /\ eqPc' = "done"
    /\ UNCHANGED eqOp
    /\ UNCHANGED nonEquivVars

\* the next query
EqAgain ==
    /\ eqPc = "done"
    /\ eqPc' = "idle"
    /\ eqOp' = [op |-> "", arg |-> NoArgs]
    /\ eqDirect' = NoQuery
    /\ eqPooled' = NoQuery
    /\ UNCHANGED nonEquivVars

\* ------------------------------------------ the endpoints of the pool

\* the pool SetupConnectionPool has built: the endpoint at position i has
\* address i and, the slice being sorted, measured latency i
EndpointInit ==
    /\ epClients = [i \in Clients |-> Client(i, i)]
    /\ epSize = 0

\* what time.Since(start) can give when an endpoint reconnects: less than
\* every latency measured when the pool was built, or more than every one
Remeasured == {0, NumClients + 1}

\* the addresses of the endpoints of a slice, in its order
UrlsOf(clients) == [n \in 1..Len(clients) |-> clients[n].url]

\* a variant of connect that puts the slice back into latency order
MeasuredSorted(clients, i, latency) ==
    CHOOSE sorted \in SortSlice([clients EXCEPT ![i].latency = latency]) : TRUE

\* connect: ec.latency = time.Since(start)
Measured(clients, i, latency) == [clients EXCEPT ![i].latency = latency]

\* cooldown: client.connect returns nil, having measured the latency anew
EpReconnectOk(i) ==
    /\ ReconnectOkStep(i)
    /\ \E latency \in Remeasured : epClients' = Measured(epClients, i, latency)
    /\ UNCHANGED epSize
    /\ UNCHANGED nonEndpointVars

\* cooldown: client.connect returns an error, from rpc.DialContext or
\* net_version, or from web3_clientVersion after the latency was measured anew
EpReconnectFail(i) ==
    /\ ReconnectFailStep(i)
    /\ \/ epClients' = epClients
       \/ \E latency \in Remeasured : epClients' = Measured(epClients, i, latency)
    /\ UNCHANGED epSize
    /\ UNCHANGED nonEndpointVars

\* Size(): len(p.clients)
Size ==
    /\ epSize' = Len(epClients)
    /\ UNCHANGED <<epClients, poolVars, callVars>>
    /\ UNCHANGED nonEndpointVars

\* ---------------------------------------------------------------- Init

PoolInit ==
    /\ status = [i \in Clients |-> 0]
    /\ quit = FALSE
    /\ transport = [i \in Clients |-> "open"]
    /\ cdWait = [i \in Clients |-> 0]
    /\ cdConn = [i \in Clients |-> 0]
    /\ closePc = 0
    /\ pc = [p \in Callers |-> "idle"]
    /\ kind = [p \in Callers |-> "Call"]
    /\ idx = [p \in Callers |-> 0]
    /\ err = [p \in Callers |-> Nil]
    /\ allBusy = [p \in Callers |-> TRUE]
    /\ ret = [p \in Callers |-> Nil]
    /\ vis = [p \in Callers |-> <<>>]
    /\ calls = 0

\* ------------------------------------------------------- specifications

Init ==
    /\ PoolInit
    /\ BlockInit
    /\ ReceiptInit
    /\ RequestInit
    /\ SetupInit
    /\ ReaderInit
    /\ DisciplineInit
    /\ DialInit
    /\ EndpointInit
    /\ EquivInit

vars == <<poolVars, callVars, blockVars, receiptVars, requestVars, setupVars,
         readerVars,
         disciplineVars,
         dialVars,
         endpointVars,
         equivVars>>

\* the pool in service: callers and cooldown goroutines
Next ==
    \/ \E p \in Callers : Start(p)
    \/ \E p \in Callers : TryClaim(p)
    \/ \E p \in Callers : Exec(p)
    \/ \E p \in Callers : Return(p)
    \/ \E i \in Clients : CooldownTimer(i)
    \/ \E i \in Clients : ReconnectOk(i)
    \/ \E i \in Clients : ReconnectFail(i)

Spec == Init /\ [][Next]_vars

\* the pool in service and its shutdown: Close runs concurrently with the rest
ShutdownNext ==
    \/ Next
    \/ \E i \in Clients : CooldownQuit(i)
    \/ CloseQuit
    \/ CloseClient

ShutdownSpec == Init /\ [][ShutdownNext]_vars

\* getBlock against an rpcCaller that may answer anything
BlockNext ==
    \/ GetBlock
    \/ EnvelopeError
    \/ EnvelopeReply
    \/ UnclesError
    \/ UnclesReply

BlockSpec == Init /\ [][BlockNext]_vars

\* getBlockReceiptsByHashes against an rpcCaller that may answer anything
ReceiptNext ==
    \/ GetReceipts
    \/ ReceiptsError
    \/ ReceiptsReply

ReceiptSpec == Init /\ [][ReceiptNext]_vars

\* the chain queries that take a block number, on either implementation
RequestNext ==
    \/ \E recv \in Receivers : BlockByNumber(recv)
    \/ \E recv \in Receivers : CodeAt(recv)
    \/ \E recv \in Receivers : CallContract(recv)
    \/ \E recv \in Receivers : BlockReceipts(recv)

RequestSpec == Init /\ [][RequestNext]_vars

\* SetupConnectionPool and the goroutines that dial
SetupNext ==
    \/ Spawn
    \/ \E u \in Urls : DialOk(u)
    \/ \E u \in Urls : DialFail(u)
    \/ \E u \in Urls : Exit(u)
    \/ Finish

SetupSpec == Init /\ [][SetupNext]_vars

\* one goroutine running getBlock and getBlockReceiptsByHashes with the pool as
\* their rpcCaller, and the cooldown goroutines
ReaderNext ==
    \/ RdGetBlock
    \/ RdGetReceipts
    \/ RdStart
    \/ TryClaim(Reader)
    \/ Exec(Reader)
    \/ RdEnvelopeError
    \/ RdEnvelopeReply
    \/ RdUnclesError
    \/ RdUnclesReply
    \/ RdReceiptsError
    \/ RdReceiptsReply
    \/ RdAgain
    \/ \E i \in Clients : CooldownTimer(i)
    \/ \E i \in Clients : ReconnectOk(i)
    \/ \E i \in Clients : ReconnectFail(i)

ReaderSpec == Init /\ [][ReaderNext]_vars

\* the pool in service with the fields of its endpoints: one caller, the
\* cooldown goroutines and Size
EndpointNext ==
    \/ Start(1)
    \/ TryClaim(1)
    \/ Exec(1)
    \/ Return(1)
    \/ \E i \in Clients : CooldownTimer(i)
    \/ \E i \in Clients : EpReconnectOk(i)
    \/ \E i \in Clients : EpReconnectFail(i)
    \/ Size

EndpointSpec == Init /\ [][EndpointNext]_vars

\* one chain query at a time, on an endpoint and on a pool of that endpoint
EquivNext ==
    \/ EqQuery
    \/ EqAnswer
    \/ EqAgain

EquivSpec == Init /\ [][EquivNext]_vars

\* SetupConnectionPool with more addresses than sem has slots
DialNext ==
    \/ DlSpawn
    \/ DlLoopEnd
    \/ \E u \in DialUrls : DlDialOk(u)
    \/ \E u \in DialUrls : DlDialFail(u)
    \/ \E u \in DialUrls : DlDone(u)
    \/ \E u \in DialUrls : DlRelease(u)
    \/ DlWait

DialSpec == Init /\ [][DialNext]_vars

\* Call and BatchCall run from the same pool state with the same answers
DisciplineNext ==
    \/ DsChoose
    \/ DsCall
    \/ DsBatchCall
    \/ DsAgain

DisciplineSpec == Init /\ [][DisciplineNext]_vars

\* one goroutine issuing calls back to back, and the cooldown goroutines
FairNext ==
    \/ Start(1)
    \/ TryClaim(1)
    \/ Exec(1)
    \/ Return(1)
    \/ \E i \in Clients : CooldownTimer(i)
    \/ \E i \in Clients : ReconnectOk(i)
    \/ \E i \in Clients : ReconnectFail(i)

\* the scheduling the Go runtime gives the cooldown goroutines: a pending timer
\* fires, and client.connect, tried again and again, eventually succeeds
FairSpec ==
    /\ Init
    /\ [][FairNext]_vars
    /\ \A i \in Clients : WF_vars(CooldownTimer(i))
    /\ \A i \in Clients : SF_vars(ReconnectOk(i))

\* ------------------------------------------------------------ properties

\* caller p has claimed endpoint i and its request on it has not returned
InFlight(p, i) == pc[p] = "exec" /\ idx[p] = i

\* a cooldown goroutine of endpoint i is running
CooldownPending(i) == cdWait[i] + cdConn[i] > 0

\* the entries of a call's log that are requests sent to an endpoint
Attempts(log) == {n \in 1..Len(log) : log[n].out # "busy"}

\* the outcomes that are endpoint faults
FaultOutcomes == {"fault", "elem", "ctx"}

\* C1: every endpoint is used by at most one in-flight Call or BatchCall, the
\* endpoint in use is marked busy, and a caller starts to use an endpoint only
\* in a step that switches its flag from free to busy while nobody else uses it.
MutualExclusion ==
    /\ [](\A i \in Clients :
            /\ Cardinality({p \in Callers : InFlight(p, i)}) <= 1
            /\ (\E p \in Callers : InFlight(p, i)) => status[i] = 1)
    /\ [][\A p \in Callers : \A i \in Clients :
            (InFlight(p, i)' /\ ~InFlight(p, i)) =>
                /\ status[i] = 0
                /\ status'[i] = 1
                /\ \A q \in Callers : ~InFlight(q, i)]_vars

\* C1 witness: two calls are in flight at once, the second one on endpoint 2
\* after it found endpoint 1 claimed by the first
ContentionReached ==
    \E p, q \in Callers :
        /\ InFlight(p, 1)
        /\ InFlight(q, 2)
        /\ vis[q] = <<[i |-> 1, out |-> "busy", cool |-> FALSE]>>

\* C2: a Call that found every endpoint busy (each one in use by another call
\* or cooling down) returns a non-nil error.
AllBusyCallFails ==
    \A p \in Callers :
        (/\ pc[p] = "done"
         /\ kind[p] = "Call"
         /\ Len(vis[p]) = NumClients
         /\ Attempts(vis[p]) = {}
         /\ \A i \in Clients :
                CooldownPending(i) \/ \E q \in Callers : InFlight(q, i)) =>
            ret[p] # Nil

\* C3: a Call in which an endpoint faulted either succeeds on a later endpoint
\* or has visited every endpoint without finding one that is free and healthy;
\* a faulted endpoint stays busy while its cooldown goroutine runs, and its flag
\* is freed only by the step in which the reconnection succeeds.
Failover ==
    /\ [](\A p \in Callers :
            (/\ pc[p] = "done"
             /\ kind[p] = "Call"
             /\ \E n \in 1..Len(vis[p]) : vis[p][n].out = "fault") =>
                \/ /\ vis[p][Len(vis[p])].out = "ok"
                   /\ ret[p] = Nil
                \/ /\ Len(vis[p]) = NumClients
                   /\ \A n \in 1..Len(vis[p]) : vis[p][n].out # "ok"
                   /\ ret[p] # Nil)
    /\ [](\A p \in Callers : \A n \in 1..Len(vis[p]) :
            vis[p][n].out = "fault" => vis[p][n].cool)
    /\ [](\A i \in Clients : CooldownPending(i) => status[i] = 1)
    /\ [][\A i \in Clients :
            (CooldownPending(i) /\ status'[i] = 0) =>
                /\ cdConn[i] > 0
                /\ cdConn'[i] = cdConn[i] - 1
                /\ cdWait'[i] = cdWait[i]
                /\ transport'[i] = "open"]_vars

\* C3 witness: a Call has returned success via endpoint 2 after a fault on
\* endpoint 1, which is busy and cooling down
FailoverReached ==
    \E p \in Callers :
        /\ pc[p] = "done"
        /\ kind[p] = "Call"
        /\ ret[p] = Nil
        /\ vis[p] = <<[i |-> 1, out |-> "fault", cool |-> TRUE],
                      [i |-> 2, out |-> "ok", cool |-> FALSE]>>
        /\ status[1] = 1
        /\ cdWait[1] = 1

\* C4: after a NotFound / NoResult answer Call sends the request to no further
\* endpoint, returns that very error, and does not cool the endpoint down.
NoResultReturnsAtOnce ==
    \A p \in Callers : \A n \in 1..Len(vis[p]) :
        (kind[p] = "Call" /\ vis[p][n].out = "noresult") =>
            /\ \A m \in Attempts(vis[p]) : m <= n
            /\ ~vis[p][n].cool
            /\ pc[p] = "done" => ret[p] = ErrNoResult(vis[p][n].i)

\* C5: once a call has returned, every endpoint it claimed is free again, has
\* a cooldown goroutine pending, or is in use by another call.
ClaimsReleased ==
    \A p \in Callers :
        pc[p] = "done" =>
            \A n \in Attempts(vis[p]) :
                LET i == vis[p][n].i IN
                \/ status[i] = 0
                \/ CooldownPending(i)
                \/ \E q \in Callers : InFlight(q, i)

\* C6: after Close has returned no cooldown goroutine is reconnecting and no
\* endpoint holds an open transport.
CloseStopsCooldown ==
    CloseReturned =>
        \A i \in Clients : cdConn[i] = 0 /\ transport[i] = "closed"

\* C7: a failed reconnection leaves the flag busy and the goroutine waits
\* again, a successful one frees the flag and ends the goroutine; under
\* FairSpec every endpoint that is cooling down eventually becomes free.
CooldownCycle ==
    /\ [][\A i \in Clients :
            /\ cdConn'[i] > cdConn[i] =>
                  cdWait'[i] = cdWait[i] - 1 /\ status'[i] = status[i]
            /\ (cdConn'[i] < cdConn[i] /\ cdWait'[i] > cdWait[i]) =>
                  status'[i] = 1
            /\ (cdConn'[i] < cdConn[i] /\ cdWait'[i] = cdWait[i]) =>
                  status'[i] = 0 /\ ~CooldownPending(i)']_vars
    /\ \A i \in Clients : CooldownPending(i) ~> (status[i] = 0)

\* C7 witness: an endpoint that faulted during a call is free again
CooledDownReached ==
    \E p \in Callers : \E n \in 1..Len(vis[p]) :
        /\ vis[p][n].out \in FaultOutcomes
        /\ vis[p][n].cool
        /\ status[vis[p][n].i] = 0
        /\ ~CooldownPending(vis[p][n].i)

\* C8: a call in which every request sent to an endpoint faulted has visited
\* all endpoints in pool order, returns the error of the last endpoint it
\* sent the request to, and has started a cooldown for each of them.
LastErrorReturned ==
    \A p \in Callers :
        (/\ pc[p] = "done"
         /\ Attempts(vis[p]) # {}
         /\ \A n \in Attempts(vis[p]) : vis[p][n].out \in FaultOutcomes) =>
            LET last == CHOOSE n \in Attempts(vis[p]) :
                            \A m \in Attempts(vis[p]) : m <= n
            IN /\ Len(vis[p]) = NumClients
               /\ \A n \in 1..Len(vis[p]) : vis[p][n].i = n
               /\ ret[p] = ErrorOf(vis[p][last].out, vis[p][last].i)
               /\ \A n \in Attempts(vis[p]) : vis[p][n].cool

\* C8 witness: a call has returned the fault of endpoint 1, the only endpoint
\* it could claim
LastErrorReached ==
    \E p \in Callers :
        /\ pc[p] = "done"
        /\ ret[p] = ErrFault(1)
        /\ Attempts(vis[p]) = {1}
        /\ vis[p][NumClients].out = "busy"

\* C9: a full-body getBlock that returns without error returns a Block whose
\* Body() is non-nil and holds the envelope's transactions and the fetched
\* uncle headers in envelope order, with the envelope's withdrawals.
FullBlockHydrated ==
    (gbPc = "done" /\ gbFull /\ gbErr = Nil) =>
        /\ ~gbBlock.nil
        /\ ~gbBlock.body.nil
        /\ gbBlock.body.Transactions = [n \in 1..Len(gbRaw.txs) |-> Tx(gbRaw.txs[n])]
        /\ gbBlock.body.Uncles = [n \in 1..Len(gbRaw.uncles) |-> Header(gbRaw.uncles[n])]
        /\ gbBlock.withdrawals = gbRaw.wds

\* C10: on the full path of a block with N >= 1 uncle hashes getBlock issues,
\* after the envelope call, exactly one BatchCall of N elements, element n
\* asking for the uncle at index n - 1 of the block; when an element comes back
\* with an error, null or with another hash than the one at its position,
\* getBlock returns an error and no Block.
UncleBatchChecked ==
    (/\ gbPc \in {"batch", "done"}
     /\ gbFull
     /\ gbRaw.kind = "obj"
     /\ Len(gbRaw.uncles) >= 1) =>
        /\ Len(gbLog) = 2
        /\ gbLog[1].op = "Call"
        /\ gbLog[2].op = "BatchCall"
        /\ Len(gbLog[2].elems) = Len(gbRaw.uncles)
        /\ \A n \in 1..Len(gbRaw.uncles) :
              /\ gbLog[2].elems[n].method = "eth_getUncleByBlockHashAndIndex"
              /\ gbLog[2].elems[n].args = <<gbRaw.hash, n - 1>>
        /\ (/\ gbPc = "done"
            /\ \E n \in 1..Len(gbReply) :
                  gbReply[n].kind # "hdr" \/ gbReply[n].hash # gbRaw.uncles[n]) =>
               gbErr # Nil /\ gbBlock.nil

\* C10 witness: of two uncles asked for, the second came back with another
\* hash, and getBlock failed
WrongUncleReached ==
    /\ gbPc = "done"
    /\ gbFull
    /\ Len(gbRaw.uncles) = 2
    /\ Len(gbReply) = 2
    /\ gbReply[1] = [kind |-> "hdr", hash |-> gbRaw.uncles[1]]
    /\ gbReply[2].kind = "hdr"
    /\ gbReply[2].hash # gbRaw.uncles[2]
    /\ gbErr = ErrWrongHeader
    /\ gbBlock.nil

\* C11: getBlock never crashes on the data the server sends: an empty payload
\* gives NotFound, and a JSON null envelope or a payload that does not decode
\* gives an error and no Block, on the compact and on the full path.
NoCrashOnBadData ==
    /\ gbPc # "panic"
    /\ (gbPc = "done" /\ gbRaw.kind = "empty") =>
          gbErr = ErrNotFound /\ gbBlock.nil
    /\ (gbPc = "done" /\ gbRaw.kind \in {"null", "bad", "badbody"}) =>
          gbErr # Nil /\ gbBlock.nil

\* C12: getBlockReceiptsByHashes returns receipts only if every one of them
\* has the block hash asked for: for any number of transaction hashes, a
\* receipt of another block makes the operation fail with no receipts.
ReceiptsBelongToBlock ==
    /\ (rcPc = "done" /\ rcErr = Nil) =>
          \A k \in 1..Len(rcOut.list) : rcOut.list[k].BlockHash = rcBlockHash
    /\ (rcPc = "done" /\ rcBad.kind = "wrong") =>
          rcErr # Nil /\ rcOut.nil

\* the number of hashes of chunk j (counted from 1) of a list of n hashes
ChunkSize(j, n) ==
    IF j * rpcRequestBatchSize <= n THEN rpcRequestBatchSize
    ELSE n - (j - 1) * rpcRequestBatchSize

\* C13: the batches issued are the consecutive chunks of rpcRequestBatchSize
\* hashes, the last one holding the remainder, one BatchCall each, with one
\* eth_getTransactionReceipt element per hash; an operation that succeeds has
\* issued ceil(n / rpcRequestBatchSize) of them and returns one receipt per
\* input hash in input order.
ChunkedBatches ==
    LET n == Len(rcTxHashes) IN
    /\ \A j \in 1..Len(rcLog) :
          /\ rcLog[j].op = "BatchCall"
          /\ (j - 1) * rpcRequestBatchSize < n
          /\ Len(rcLog[j].elems) = ChunkSize(j, n)
          /\ \A k \in 1..Len(rcLog[j].elems) :
                /\ rcLog[j].elems[k].method = "eth_getTransactionReceipt"
                /\ rcLog[j].elems[k].args =
                      <<rcTxHashes[(j - 1) * rpcRequestBatchSize + k]>>
    /\ (rcPc = "done" /\ rcErr = Nil) =>
          /\ Len(rcLog) * rpcRequestBatchSize >= n
          /\ ~rcOut.nil
          /\ Len(rcOut.list) = n
          /\ \A k \in 1..n : rcOut.list[k].TransactionHash = rcTxHashes[k]

\* C13 witness: 250 hashes were fetched in batches of 100, 100 and 50
ThreeChunksReached ==
    /\ rcPc = "done"
    /\ rcErr = Nil
    /\ Len(rcTxHashes) = 250
    /\ Len(rcLog) = 3
    /\ Len(rcLog[1].elems) = 100
    /\ Len(rcLog[2].elems) = 100
    /\ Len(rcLog[3].elems) = 50
    /\ Len(rcOut.list) = 250

\* C14: a null receipt in any chunk makes the operation return an error and
\* no receipts, and the chunks after it are not requested.
NullReceiptFatal ==
    rcBad.kind = "null" =>
        /\ rcPc = "done"
        /\ rcErr = ErrNullReceipt
        /\ rcOut.nil
        /\ Len(rcLog) = ((rcBad.pos - 1) \div rpcRequestBatchSize) + 1

\* C14 witness: the second of three chunks came back with a null receipt
NullInSecondChunkReached ==
    /\ rcPc = "done"
    /\ rcBad.kind = "null"
    /\ rcBad.pos > rpcRequestBatchSize
    /\ Len(rcTxHashes) > 2 * rpcRequestBatchSize
    /\ Len(rcRet) = rpcRequestBatchSize
    /\ Len(rcLog) = 2
    /\ rcOut.nil
    /\ rcErr # Nil

\* C18: a BatchCall that found every endpoint busy has sent the batch to no
\* endpoint and returns the "all clients are busy" error, in the step that
\* ends its scan; a BatchCall that claimed an endpoint returns success or the
\* error of the last endpoint it sent the batch to, never the all-busy error.
BatchCallAllBusy ==
    \A p \in Callers :
        (pc[p] = "done" /\ kind[p] = "BatchCall") =>
            /\ Len(vis[p]) >= 1
            /\ Attempts(vis[p]) = {} =>
                  /\ ret[p] = ErrAllBusy
                  /\ Len(vis[p]) = NumClients
                  /\ \A n \in 1..Len(vis[p]) : vis[p][n].out = "busy"
            /\ Attempts(vis[p]) # {} =>
                  LET last == CHOOSE n \in Attempts(vis[p]) :
                                  \A m \in Attempts(vis[p]) : m <= n
                  IN /\ ret[p] # ErrAllBusy
                     /\ ret[p] = ErrorOf(vis[p][last].out, vis[p][last].i)

\* C18 witness: a BatchCall has returned the all-busy error while endpoint 1 is
\* cooling down and another call is in flight on endpoint 2
AllBusyReached ==
    \E p, q \in Callers :
        /\ pc[p] = "done"
        /\ kind[p] = "BatchCall"
        /\ ret[p] = ErrAllBusy
        /\ CooldownPending(1)
        /\ InFlight(q, 2)

\* the value of a hexadecimal digit
HexValue(c) == (CHOOSE d \in 1..16 : HexChars[d] = c) - 1

\* the number a string of hexadecimal digits denotes
RECURSIVE HexNumber(_)
HexNumber(digits) ==
    IF Len(digits) = 0 THEN 0
    ELSE 16 * HexNumber(SubSeq(digits, 1, Len(digits) - 1)) + HexValue(digits[Len(digits)])

\* str is the minimal hex string of n: "0x", with "-" in front for a negative
\* number, then the digits of |n| without a leading zero
IsMinimalHex(str, n) ==
    LET body == IF n < 0 THEN Tail(str) ELSE str
        digits == SubSeq(body, 3, Len(body))
    IN /\ n < 0 => Head(str) = "-"
       /\ Len(body) >= 3
       /\ body[1] = "0" /\ body[2] = "x"
       /\ \A k \in 1..Len(digits) : \E d \in 1..16 : HexChars[d] = digits[k]
       /\ HexNumber(digits) = (IF n < 0 THEN 0 - n ELSE n)
       /\ Len(digits) > 1 => digits[1] # "0"

\* the position of the block-number parameter in the params of each query
NumberParam(op) == IF op \in {"BlockByNumber", "BlockReceipts"} THEN 1 ELSE 2

\* C19: BlockByNumber, CodeAt, CallContract and BlockReceipts (number form),
\* on the pool and on a single endpoint, send the block number encoded as
\* "latest" when it is absent, as "pending" when it is -1, and as its minimal
\* hex string otherwise.
BlockNumberEncoding ==
    (rqPc = "sent" /\ rqReq.op \in {"BlockByNumber", "CodeAt", "CallContract", "BlockReceipts"}) =>
        LET arg == rqReq.params[NumberParam(rqReq.op)] IN
        /\ rqReq.err = Nil
        /\ rqReq.number.nil => arg = <<"l", "a", "t", "e", "s", "t">>
        /\ (~rqReq.number.nil /\ rqReq.number.v = -1) =>
              arg = <<"p", "e", "n", "d", "i", "n", "g">>
        /\ (~rqReq.number.nil /\ rqReq.number.v # -1) =>
              IsMinimalHex(arg, rqReq.number.v)

\* C19 witness: each of the three encodings has been sent: here the pool's
\* CodeAt for block 255, sent as 0xff
HexNumberSent ==
    /\ rqPc = "sent"
    /\ rqReq.recv = "RpcConnectionPool"
    /\ rqReq.op = "CodeAt"
    /\ rqReq.number = Number(255)
    /\ rqReq.method = "eth_getCode"
    /\ rqReq.params[2] = <<"0", "x", "f", "f">>

\* C16: a Block returned by getBlock carries exactly one body representation:
\* the full Body when fullBlock is true, the compact body when it is false.
OneBodyRepresentation ==
    (gbPc = "done" /\ gbErr = Nil) =>
        /\ ~gbBlock.nil
        /\ gbFull => (~gbBlock.body.nil /\ gbBlock.compact.nil)
        /\ ~gbFull => (gbBlock.body.nil /\ ~gbBlock.compact.nil)

\* the addresses whose dial succeeded
Connected == {u \in Urls : suResult[u].st = "ok"}

\* C17: the pool SetupConnectionPool returns holds exactly the endpoints whose
\* dial succeeded, each once and with the latency measured, in ascending order
\* of latency, all marked free; endpoints that failed to connect are left out;
\* the construction fails, with "no connection established" and no pool, if
\* and only if no endpoint connected.
PoolConstruction ==
    suPc = "done" =>
        /\ \A u \in Urls : suResult[u].st # "none"
        /\ (Connected = {}) <=> (suErr = ErrNoConnection)
        /\ (Connected = {}) <=> suPool.nil
        /\ (Connected # {}) <=> (suErr = Nil)
        /\ Len(suPool.clients) = Cardinality(Connected)
        /\ \A u \in Connected :
              \E i \in 1..Len(suPool.clients) :
                  suPool.clients[i] = [url |-> u, latency |-> suResult[u].latency]
        /\ \A i, j \in 1..Len(suPool.clients) :
              i < j => suPool.clients[i].latency <= suPool.clients[j].latency
        /\ Len(suPool.status) = Len(suPool.clients)
        /\ \A i \in 1..Len(suPool.status) : suPool.status[i] = 0

\* C17 witness: of three addresses one failed to connect, and the two that
\* connected arrived in descending order of latency and are pooled ascending
SortedPoolReached ==
    /\ suPc = "done"
    /\ Cardinality(Connected) = 2
    /\ \E u \in Urls : suResult[u].st = "failed"
    /\ suClients[1].latency > suClients[2].latency
    /\ suPool.clients = <<suClients[2], suClients[1]>>


\* the endpoint that answered the reader's last pool call is free and no
\* cooldown goroutine of it exists
ServingEndpointFree ==
    /\ rdServed \in Clients
    /\ status[rdServed] = 0
    /\ cdWait[rdServed] = 0
    /\ cdConn[rdServed] = 0

\* C15: when getBlock over the pool has found a null uncle header or an uncle
\* header with another hash, or getBlockReceiptsByHashes over the pool a null
\* receipt or a receipt of another block, in a batch that BatchCall returned
\* nil for, the operation has returned the error and no result, every request
\* of the operation went through the pool once and none is in progress or
\* waiting, and the endpoint that answered the batch is free with no cooldown
\* goroutine; and every such element in an answered uncle batch, every null
\* receipt, and every foreign receipt of a list of more than one chunk whose
\* chunks were all answered, is found.
InconsistencyFatal ==
    /\ gbErr \in {ErrNullHeader, ErrWrongHeader} =>
          /\ gbPc = "done"
          /\ gbBlock.nil
          /\ pc[Reader] = "idle"
          /\ Len(gbLog) = 2
          /\ ~rdFirst.set => calls = 2
          /\ ServingEndpointFree
    /\ rcErr \in {ErrNullReceipt, ErrWrongBlock} =>
          /\ rcPc = "done"
          /\ rcOut = NilReceipts
          /\ pc[Reader] = "idle"
          /\ Len(rcLog) = IF rcErr = ErrNullReceipt THEN rcI + 1
                          ELSE BatchCount(Len(rcTxHashes))
          /\ calls = Len(rcLog)
          /\ ServingEndpointFree
    /\ (/\ gbPc = "done"
        /\ \E n \in 1..Len(gbReply) :
              gbReply[n].kind = "null" \/ gbReply[n].hash # gbRaw.uncles[n]) =>
          gbErr \in {ErrNullHeader, ErrWrongHeader}
    /\ (rcPc = "done" /\ rcBad.kind = "null") => rcErr = ErrNullReceipt
    /\ (/\ rcPc = "done"
        /\ rcBad.kind = "wrong"
        /\ Chunked(Len(rcTxHashes))
        /\ rcI = BatchCount(Len(rcTxHashes))) =>
          rcErr = ErrWrongBlock

\* C15 witness: the uncle batch failed on endpoint 1, which is cooling down,
\* and was answered by endpoint 2 with a header of another hash; getBlock has
\* failed and endpoint 2 is free
WrongUncleServedReached ==
    /\ gbErr = ErrWrongHeader
    /\ rdServed = 2
    /\ status[1] = 1
    /\ cdWait[1] > 0
    /\ ServingEndpointFree


\* two successive compact getBlock calls for the same number have returned
\* without error
TwoCompactReads ==
    /\ rdFirst.set
    /\ ~rdFirst.full
    /\ rdFirst.err = Nil
    /\ gbPc = "done"
    /\ ~gbFull
    /\ gbErr = Nil
    /\ gbLog[1].elems[1].args[1] = rdFirst.arg

\* C20 as stated: two successive compact getBlock calls for the same number
\* return Blocks with the same transaction-hash list and the same uncle-hash
\* list, and at the return of the first call every endpoint it had found free
\* and claimed is free again.
CompactIdempotentFlagsAsFound ==
    TwoCompactReads =>
        /\ gbBlock.compact.Transactions = rdFirst.block.compact.Transactions
        /\ gbBlock.compact.Uncles = rdFirst.block.compact.Uncles
        /\ rdFirst.asFound

\* C20 amended: two successive compact getBlock calls for the same number that
\* return without error return Blocks with the same transaction-hash list and
\* the same uncle-hash list, those of the chain's block, and at the return of
\* the first call the endpoint that answered it is free again.
CompactIdempotent ==
    TwoCompactReads =>
        /\ ~gbBlock.nil /\ ~rdFirst.block.nil
        /\ gbBlock.compact.Transactions = rdFirst.block.compact.Transactions
        /\ gbBlock.compact.Uncles = rdFirst.block.compact.Uncles
        /\ gbBlock.compact.Transactions = ChainBlock(rdFirst.arg).txs
        /\ gbBlock.compact.Uncles = ChainBlock(rdFirst.arg).uncles
        /\ rdFirst.served \in Clients
        /\ rdFirst.servedFree

\* C20 witness: the first call failed on endpoint 1, which is still cooling
\* down, and was answered by endpoint 2, the second was answered too, and both
\* returned the one uncle hash of block 2
TwoCompactReadsReached ==
    /\ TwoCompactReads
    /\ rdFirst.arg = 2
    /\ rdFirst.served = 2
    /\ ~rdFirst.asFound
    /\ rdFirst.servedFree
    /\ status[1] = 1
    /\ cdWait[1] > 0
    /\ Len(gbBlock.compact.Uncles) = 1


\* C21: from the same pool state and with the same answers of the endpoints,
\* Call and BatchCall leave the same flags, start a cooldown for the same
\* endpoints, attempt the same endpoints and return the same class of outcome;
\* and BatchCall returns nil only if an endpoint it attempted answered the
\* whole batch without error.
SameDiscipline ==
    (dsCall # NoRun /\ dsBatch # NoRun) =>
        /\ dsCall.status = dsBatch.status
        /\ dsCall.cools = dsBatch.cools
        /\ dsCall.tried = dsBatch.tried
        /\ dsCall.ret.class = dsBatch.ret.class
        /\ dsBatch.ret = Nil =>
              /\ dsBatch.tried # <<>>
              /\ dsOuts[dsBatch.tried[Len(dsBatch.tried)]] = "ok"


\* the endpoints a call has attempted: those it visited and did not skip
Attempted(log) == {n \in 1..Len(log) : log[n].out # "busy"}

\* C22: a call visits the endpoints once and in pool order (its n-th visit is
\* to endpoint n), makes at most Size() attempts, attempts an endpoint only
\* after the step in which it switched the endpoint's flag from free to busy,
\* skips a busy endpoint in one step that changes no flag, and when it returns
\* nil after an attempt, the endpoint that answered is its last visit and every
\* endpoint before it was busy when visited or failed.
ScanDiscipline ==
    /\ [](\A p \in Callers :
            /\ Len(vis[p]) <= NumClients
            /\ \A n \in 1..Len(vis[p]) : vis[p][n].i = n
            /\ Cardinality(Attempted(vis[p])) <= NumClients
            /\ pc[p] \in {"scan", "exec"} => idx[p] = Len(vis[p]) + 1
            /\ pc[p] = "exec" => status[idx[p]] = 1
            /\ \A n \in 1..Len(vis[p]) :
                  vis[p][n].out = "ok" =>
                      /\ n = Len(vis[p])
                      /\ pc[p] = "done"
                      /\ ret[p] = Nil
                      /\ \A m \in 1..(n - 1) : vis[p][m].out # "ok")
    /\ [][\A p \in Callers :
            /\ (pc[p] = "scan" /\ pc'[p] = "exec") =>
                  /\ status[idx[p]] = 0
                  /\ status'[idx[p]] = 1
                  /\ vis'[p] = vis[p]
            /\ (Len(vis'[p]) > Len(vis[p])) =>
                  /\ Len(vis'[p]) = Len(vis[p]) + 1
                  /\ vis'[p][Len(vis'[p])].i = idx[p]
                  /\ IF vis'[p][Len(vis'[p])].out = "busy"
                     THEN pc[p] = "scan" /\ status[idx[p]] # 0 /\ status' = status
                     ELSE pc[p] = "exec"]_vars

\* C22 witness: a call has skipped the busy endpoint 1 and was answered by
\* endpoint 2
SkippedThenServedReached ==
    \E p \in Callers :
        /\ pc[p] = "done"
        /\ ret[p] = Nil
        /\ Len(vis[p]) = 2
        /\ vis[p][1].out = "busy"
        /\ vis[p][2].out = "ok"


\* the addresses whose DialContext is in progress
Dialing == {u \in DialUrls : dlG[u] = "dialing"}

\* C23: at every moment of SetupConnectionPool at most 5 dial attempts are in
\* progress, however many addresses there are, and when wg.Wait has returned
\* an attempt was started for every address and every attempt has returned.
DialConcurrency ==
    /\ Cardinality(Dialing) <= 5
    /\ Cardinality(Dialing) <= dlSem
    /\ dlSem <= SemCapacity
    /\ dlPc = "done" =>
          /\ dlNext > NumDialUrls
          /\ \A u \in DialUrls : dlG[u] \in {"release", "gone"}

\* C23 witness: five dial attempts are in progress and the loop, with an
\* address left, waits for a slot of the semaphore
SemaphoreFullReached ==
    /\ Cardinality(Dialing) = 5
    /\ dlPc = "loop"
    /\ dlNext <= NumDialUrls
    /\ dlSem = SemCapacity


\* C24: no step of Call, BatchCall, a cooldown goroutine or Size changes which
\* endpoints the pool holds or their order, and Size returns the number of
\* endpoints the pool was built with; a step of a call changes no flag other
\* than that of the endpoint the call is at, which it switches from free to
\* busy when it claims it and back to free only after having claimed it.
PoolFrame ==
    /\ [](/\ Len(epClients) = NumClients
          /\ UrlsOf(epClients) = [n \in Clients |-> n]
          /\ epSize \in {0, NumClients})
    /\ [][UrlsOf(epClients') = UrlsOf(epClients)]_vars
    /\ [][\A p \in Callers :
            (pc'[p] # pc[p] \/ vis'[p] # vis[p]) =>
                \A i \in Clients :
                    status'[i] # status[i] =>
                        /\ i = idx[p]
                        /\ \/ pc[p] = "scan" /\ status[i] = 0 /\ status'[i] = 1
                           \/ pc[p] = "exec" /\ status[i] = 1 /\ status'[i] = 0]_vars

\* C24 witness: after a call that failed on endpoint 1, the cooldown goroutine
\* has reconnected it with a latency above that of endpoint 2, and Size has
\* returned
ReconnectedInPlaceReached ==
    /\ calls >= 1
    /\ epSize = NumClients
    /\ epClients[1].url = 1
    /\ epClients[1].latency > epClients[2].latency
    /\ status[1] = 0
    /\ cdWait[1] = 0
    /\ cdConn[1] = 0

\* C25: in every state the endpoints of the pool are in ascending order of
\* their recorded latency, and the latency recorded for an endpoint is the one
\* measured when the pool was built.
LatencyAscending ==
    /\ \A n \in 1..(Len(epClients) - 1) :
          epClients[n].latency <= epClients[n + 1].latency
    /\ \A n \in 1..Len(epClients) : epClients[n].latency = n


\* C26: a Call or BatchCall that has returned nil sent its request, in that
\* call, to exactly one endpoint that answered without error (for BatchCall
\* without an element error either); a call that claimed no endpoint has not
\* returned nil.
SuccessImpliesExecution ==
    \A p \in Callers :
        (pc[p] = "done" /\ ret[p] = Nil) =>
            /\ Attempts(vis[p]) # {}
            /\ Cardinality({n \in Attempts(vis[p]) : vis[p][n].out = "ok"}) = 1

\* a call that has not returned yet holds the claim it made on endpoint i
ClaimedInFlight(i) ==
    \E p \in Callers :
        /\ pc[p] \in {"scan", "exec"}
        /\ \/ InFlight(p, i)
           \/ \E n \in Attempts(vis[p]) : vis[p][n].i = i

\* C27: every endpoint has at most one cooldown goroutine, an endpoint with a
\* cooldown goroutine is busy, and until Close every busy endpoint has a
\* cooldown goroutine or was claimed by a call that has not returned yet.
CooldownBookkeeping ==
    \A i \in Clients :
        /\ cdWait[i] + cdConn[i] <= 1
        /\ CooldownPending(i) => status[i] = 1
        /\ (~quit /\ status[i] = 1) => (CooldownPending(i) \/ ClaimedInFlight(i))


\* C28: every chain query of RemoteChainReader hands the same method and the
\* same parameters to the endpoint whether it is called on the endpoint or on
\* a pool of that one free and healthy endpoint, and returns the same result
\* or error; BlockByHash sends eth_getBlockByHash on both.
SingleEndpointPoolEquivalent ==
    /\ eqPc \in {"sent", "done"} =>
          /\ eqDirect.req = eqPooled.req
          /\ eqOp.op = "BlockByHash" =>
                /\ eqDirect.req.method = "eth_getBlockByHash"
                /\ eqPooled.req.method = "eth_getBlockByHash"
    /\ eqPc = "done" => eqDirect.res = eqPooled.res

====
